---- MODULE Spec2Model ----
(***************************************************************************)
(* Rezolus BPF samplers: shared counter substrate, cgroup identity         *)
(* tracking and latency pairing.                                           *)
(*                                                                         *)
(* Every sampler is a separate BPF object with private maps.  The agent's  *)
(* configuration enables samplers individually; a behaviour of this model  *)
(* runs the probes of the one sampler chosen at Init (variable `sampler`). *)
(* Map variables carry a prefix naming the sampler that declares them,     *)
(* because the samplers reuse the same map names (counters, start, ...).   *)
(*                                                                         *)
(* BPF array maps are zero-initialised and fixed-size.  They are kept as   *)
(* functions with a finite support: an index that is not in the DOMAIN     *)
(* holds 0.  bpf_map_lookup_elem on an array fails exactly when the index  *)
(* is >= max_entries, so the helpers take max_entries as a parameter.      *)
(***************************************************************************)
EXTENDS Integers, Sequences, FiniteSets, TLC

(***************************************************************************)
(* Bounds of the model.                                                    *)
(***************************************************************************)
WordBits == 5        \* a u64 is modelled as a WordBits-bit unsigned word
NCpus == 2           \* CPUs that run probes
MaxEvents == 3       \* probe invocations in one behaviour
MaxTime == 3         \* bpf_ktime_get_ns() returns a value in 1..MaxTime
MaxSerial == 2       \* css serial numbers handed out per cgroup id
RingSlots == 1       \* records a ring buffer holds before it is full
HashSlots == 1       \* max_entries of the hash maps (65536 and 10240 in the code)
PairSpan == 2        \* the indexer's second value is at most this many values on
MaxSwitches == 2     \* wakeups and switches in one behaviour of the runqueue alone
MaxSyscalls == 2     \* syscalls in one behaviour of the syscall counts alone
MaxCompletions == 2  \* block request completions in one behaviour
MaxThrottleEvents == 4  \* events of the bandwidth and throttled samplers in one behaviour
MaxSoftnetEvents == 4   \* events of the softnet sampler in one behaviour
MaxGroupEvents == 2     \* events in one behaviour of the per-CPU counter groups

(***************************************************************************)
(* Program constants.                                                      *)
(***************************************************************************)
MAX_CGROUPS == 4096
MAX_CPUS == 1024
MAX_PID == 4194304
TLB_COUNTER_GROUP_WIDTH == 8
SC_COUNTER_GROUP_WIDTH == 16
MAX_SYSCALL_ID == 1024
RQ_COUNTER_GROUP_WIDTH == 8
RQ_HISTOGRAM_POWER == 3
IVCSW == 0
RUNQ_WAIT == 1
HISTOGRAM_BUCKETS_POW_4 == 976
HISTOGRAM_BUCKETS_POW_5 == 1920
HISTOGRAM_BUCKETS_POW_6 == 3776
HISTOGRAM_BUCKETS_POW_7 == 7424
BLK_HISTOGRAM_POWER == 3
REQUESTS_COUNTER_GROUP_WIDTH == 8
REQUESTS_HISTOGRAM_POWER == 3
REQ_OP_MASK == 255
REQ_OP_READ == 0
REQ_OP_WRITE == 1
REQ_OP_FLUSH == 2
REQ_OP_DISCARD == 3
SL_COUNTER_GROUP_WIDTH == 8
SL_HISTOGRAM_POWER == 7
CPU_USAGE_GROUP_WIDTH == 8
SOFTIRQ_GROUP_WIDTH == 16
USER_OFFSET == 0
SYSTEM_OFFSET == 1
SOFTIRQ_OFFSET == 2
NET_RX == 3
TCP_HISTOGRAM_POWER == 3
BPF_ANY == 0
NO_EXIST == 1
HISTOGRAM_BUCKETS_POW_3 == 496

NoGroup == -1        \* task->sched_task_group is NULL
NullElem == -1       \* bpf_map_lookup_elem found no element

Mod == 2 ^ WordBits
Cpus == 0 .. (NCpus - 1)
Times == 1 .. MaxTime
CgroupIds == {0, 1, MAX_CGROUPS}   \* css.id values the kernel hands to probes
TaskGroups == CgroupIds \cup {NoGroup}

WAdd(a, b) == (a + b) % Mod
WSub(a, b) == (a - b + Mod) % Mod

(***************************************************************************)
(* Zero-initialised array maps with finite support.                        *)
(***************************************************************************)
EmptyArr == [i \in {} |-> 0]

ArrGet(a, i) == IF i \in DOMAIN a THEN a[i] ELSE 0

ArrPut(a, i, v) ==
    IF v = 0
    THEN [j \in (DOMAIN a) \ {i} |-> a[j]]
    ELSE [j \in (DOMAIN a) \cup {i} |-> IF j = i THEN v ELSE a[j]]

\* bpf_map_update_elem on an array map: fails when the key is out of range
ArrUpdate(a, max_entries, i, v) ==
    IF i >= 0 /\ i < max_entries THEN ArrPut(a, i, v) ELSE a

\* bpf_map_lookup_elem on an array map: the slot, or NULL when the key is
\* out of range
bpf_map_lookup_elem(max_entries, idx) ==
    IF idx >= 0 /\ idx < max_entries THEN idx ELSE NullElem

\* a plain load, add and store instead of the atomic add
plain_add(a, elem, seen, value) == ArrPut(a, elem, WAdd(seen, value))

\* __atomic_fetch_add(elem, value, __ATOMIC_RELAXED): one indivisible
\* read-modify-write of the slot.  `seen`, the value the slot held when it
\* was looked up, plays no part in it.
atomic_fetch_add(a, elem, seen, value) == ArrPut(a, elem, WAdd(ArrGet(a, elem), value))

\* array_add without the NULL check on the looked-up slot
array_add_unchecked(a, max_entries, idx, value) ==
    atomic_fetch_add(a, idx, ArrGet(a, idx), value)

array_add(a, max_entries, idx, value) ==
    LET elem == bpf_map_lookup_elem(max_entries, idx)
    IN  IF elem # NullElem
        THEN atomic_fetch_add(a, elem, ArrGet(a, elem), value)
        ELSE a

array_incr(a, max_entries, idx) == array_add(a, max_entries, idx, 1)

(***************************************************************************)
(* 64-bit values of the histogram indexer.  A u64 is kept as the set of    *)
(* the positions of its one bits, so that the masks of clz and the         *)
(* wrap-around of unsigned subtraction are those of the real width.        *)
(***************************************************************************)
U64Positions == 0 .. 63

\* the u64 holding the natural number n (n below 2^31)
U64(n) == {i \in 0 .. 30 : (n \div (2 ^ i)) % 2 = 1}

\* the natural number a u64 below 2^31 holds
RECURSIVE Num(_)
Num(v) == IF v = {} THEN 0
          ELSE LET i == CHOOSE j \in v : TRUE IN (2 ^ i) + Num(v \ {i})

TopBit(v) == CHOOSE i \in v : \A j \in v : j <= i

\* a < b on u64
Less(a, b) ==
    LET d == (a \ b) \cup (b \ a) IN d # {} /\ TopBit(d) \in b

\* a >> k
Shr(a, k) == {i - k : i \in {j \in a : j >= k}}

\* a - b in unsigned 64-bit arithmetic: bits i..63 of the difference, given
\* the borrow out of bit i - 1
RECURSIVE SubFrom(_, _, _, _)
SubFrom(a, b, i, borrow) ==
    IF i > 63 THEN {}
    ELSE LET d == (IF i \in a THEN 1 ELSE 0) - (IF i \in b THEN 1 ELSE 0) - borrow
         IN  (IF d = 1 \/ d = -1 THEN {i} ELSE {})
                 \cup SubFrom(a, b, i + 1, IF d < 0 THEN 1 ELSE 0)

Sub(a, b) == SubFrom(a, b, 0, 0)

\* value & mask, for the mask whose one bits are lo .. hi
Masked(value, lo, hi) == value \cap (lo .. hi)

(***************************************************************************)
(* Histogram indexing.                                                     *)
(***************************************************************************)
\* A halving search over the bits lo .. lo + width - 1: the upper half is
\* tested and descended into, else the lower half.  A single remaining bit
\* is not tested.
RECURSIVE clz_tree(_, _, _)
clz_tree(value, lo, width) ==
    IF width = 1
    THEN 63 - lo
    ELSE LET half == width \div 2
         IN  IF Masked(value, lo + half, lo + width - 1) # {}
             THEN clz_tree(value, lo + half, half)
             ELSE clz_tree(value, lo, half)

\* a search that leaves out its last test and takes the lower bit of the
\* pair it has arrived at
clz_without_last_test(value) ==
    LET count == clz_tree(value, 0, 64)
    IN  IF count % 2 = 0 THEN count + 1 ELSE count

\* clz: the if / else-if tree as it is written, test by test and return by
\* return; `value & mask` is Masked(value, lo, hi) for the mask whose one
\* bits are lo .. hi.  The `return 64` after the tree is never reached.
clz(value) ==
    IF Masked(value, 32, 63) # {} THEN
        IF Masked(value, 48, 63) # {} THEN
            IF Masked(value, 56, 63) # {} THEN
                IF Masked(value, 60, 63) # {} THEN
                    IF Masked(value, 62, 63) # {} THEN
                        IF Masked(value, 63, 63) # {} THEN
                            0
                        ELSE
                            1
                    ELSE IF Masked(value, 61, 61) # {} THEN
                        2
                    ELSE
                        3
                ELSE IF Masked(value, 58, 59) # {} THEN
                    IF Masked(value, 59, 59) # {} THEN
                        4
                    ELSE
                        5
                ELSE IF Masked(value, 57, 57) # {} THEN
                    6
                ELSE
                    7
            ELSE IF Masked(value, 52, 55) # {} THEN
                IF Masked(value, 54, 55) # {} THEN
                    IF Masked(value, 55, 55) # {} THEN
                        8
                    ELSE
                        9
                ELSE IF Masked(value, 53, 53) # {} THEN
                    10
                ELSE
                    11
            ELSE IF Masked(value, 50, 51) # {} THEN
                IF Masked(value, 51, 51) # {} THEN
                    12
                ELSE
                    13
            ELSE IF Masked(value, 49, 49) # {} THEN
                14
            ELSE
                15
        ELSE IF Masked(value, 40, 47) # {} THEN
            IF Masked(value, 44, 47) # {} THEN
                IF Masked(value, 46, 47) # {} THEN
                    IF Masked(value, 47, 47) # {} THEN
                        16
                    ELSE
                        17
                ELSE IF Masked(value, 45, 45) # {} THEN
                    18
                ELSE
                    19
            ELSE IF Masked(value, 42, 43) # {} THEN
                IF Masked(value, 43, 43) # {} THEN
                    20
                ELSE
                    21
            ELSE IF Masked(value, 41, 41) # {} THEN
                22
            ELSE
                23
        ELSE IF Masked(value, 36, 39) # {} THEN
            IF Masked(value, 38, 39) # {} THEN
                IF Masked(value, 39, 39) # {} THEN
                    24
                ELSE
                    25
            ELSE IF Masked(value, 37, 37) # {} THEN
                26
            ELSE
                27
        ELSE IF Masked(value, 34, 35) # {} THEN
            IF Masked(value, 35, 35) # {} THEN
                28
            ELSE
                29
        ELSE IF Masked(value, 33, 33) # {} THEN
            30
        ELSE
            31
    ELSE IF Masked(value, 16, 31) # {} THEN
        IF Masked(value, 24, 31) # {} THEN
            IF Masked(value, 28, 31) # {} THEN
                IF Masked(value, 30, 31) # {} THEN
                    IF Masked(value, 31, 31) # {} THEN
                        32
                    ELSE
                        33
                ELSE IF Masked(value, 29, 29) # {} THEN
                    34
                ELSE
                    35
            ELSE IF Masked(value, 26, 27) # {} THEN
                IF Masked(value, 27, 27) # {} THEN
                    36
                ELSE
                    37
            ELSE IF Masked(value, 25, 25) # {} THEN
                38
            ELSE
                39
        ELSE IF Masked(value, 20, 23) # {} THEN
            IF Masked(value, 22, 23) # {} THEN
                IF Masked(value, 23, 23) # {} THEN
                    40
                ELSE
                    41
            ELSE IF Masked(value, 21, 21) # {} THEN
                42
            ELSE
                43
        ELSE IF Masked(value, 18, 19) # {} THEN
            IF Masked(value, 19, 19) # {} THEN
                44
            ELSE
                45
        ELSE IF Masked(value, 17, 17) # {} THEN
            46
        ELSE
            47
    ELSE IF Masked(value, 8, 15) # {} THEN
        IF Masked(value, 12, 15) # {} THEN
            IF Masked(value, 14, 15) # {} THEN
                IF Masked(value, 15, 15) # {} THEN
                    48
                ELSE
                    49
            ELSE IF Masked(value, 13, 13) # {} THEN
                50
            ELSE
                51
        ELSE IF Masked(value, 10, 11) # {} THEN
            IF Masked(value, 11, 11) # {} THEN
                52
            ELSE
                53
        ELSE IF Masked(value, 9, 9) # {} THEN
            54
        ELSE
            55
    ELSE IF Masked(value, 4, 7) # {} THEN
        IF Masked(value, 6, 7) # {} THEN
            IF Masked(value, 7, 7) # {} THEN
                56
            ELSE
                57
        ELSE IF Masked(value, 5, 5) # {} THEN
            58
        ELSE
            59
    ELSE IF Masked(value, 2, 3) # {} THEN
        IF Masked(value, 3, 3) # {} THEN
            60
        ELSE
            61
    ELSE IF Masked(value, 1, 1) # {} THEN
        62
    ELSE
        63

\* The shift instructions a build of `(1 << power)` may use.  The operand 1
\* has type int, so the shift is a 32-bit one and its result is converted
\* to u64 by sign extension.  For power = 31 the result is INT_MIN.  For
\* power >= 32 the shift is undefined: a build on 64-bit registers shifts
\* the one out of the low word ("alu64"), a build on 32-bit subregisters
\* uses the low five bits of the count ("alu32").
Builds == {"alu64", "alu32"}

VARIABLE build       \* the shift instructions of the loaded BPF objects

int_shl_1(power) ==
    LET count == IF build = "alu32" THEN power % 32 ELSE power
    IN  IF count > 31 THEN {}
        ELSE IF count = 31 THEN 31 .. 63
        ELSE {count}

\* value_to_index without the branch for the linear region: the shift
\* count wraps, and the low bits of the offset are kept
value_to_index_log_only(value, grouping_power) ==
    LET power == 63 - clz(value)
        bin == power - grouping_power + 1
        offset == Shr(Sub(value, int_shl_1(power)), (power - grouping_power) % 64)
    IN  bin * (2 ^ grouping_power) + Num(offset \cap (0 .. 29))

\* The sum returned is below 2^14, so the conversion of the result to u32
\* leaves it unchanged.
value_to_index(value, grouping_power) ==
    IF Less(value, U64(2 * (2 ^ grouping_power)))
    THEN Num(value)
    ELSE LET power == 63 - clz(value)
             bin == power - grouping_power + 1
             offset == Shr(Sub(value, int_shl_1(power)), power - grouping_power)
         IN  bin * (2 ^ grouping_power) + Num(offset)

histogram_incr(a, max_entries, grouping_power, value) ==
    array_add(a, max_entries, value_to_index(value, grouping_power), 1)

(***************************************************************************)
(* Ring buffers.  data is everything written so far, consumer_pos the      *)
(* number of records user space has consumed.  bpf_ringbuf_output fails    *)
(* (and its caller ignores the failure) when no room is left.              *)
(***************************************************************************)
EmptyRing == [data |-> <<>>, consumer_pos |-> 0]

RingFull(ring) == Len(ring.data) - ring.consumer_pos >= RingSlots

bpf_ringbuf_output(ring, rec) ==
    IF RingFull(ring) THEN ring ELSE [ring EXCEPT !.data = Append(@, rec)]

\* the identity record of the css that currently owns cgroup id `id`.
\* The three name strings are abstracted to `epoch`, the serial number of
\* the css they were read from.
CgroupInfo(id, level, serial_nr) == [id |-> id, level |-> level, epoch |-> serial_nr]

CssLevel(id) == IF id = 0 THEN 0 ELSE 1

VARIABLES
    sampler,                     \* the sampler that is enabled
    nevents,                     \* probe invocations so far
    last,                        \* the probe that ran last, with its arguments
    css_serial,                  \* kernel: css.serial_nr of the css owning each id
    ctx,                         \* per CPU: position and locals of the running probe
    tlb_events,                  \* tlb_flush: per-CPU counters
    tlb_cgroup_info,             \* tlb_flush: cgroup ring buffer
    tlb_cgroup_serial_numbers,   \* tlb_flush: serial table
    tlb_cgroup,                  \* tlb_flush: per-cgroup counters, by reason
    sc_counters,                 \* syscall counts: per-CPU counters
    sc_cgroup_info,              \* syscall counts: cgroup ring buffer
    sc_cgroup_serial_numbers,    \* syscall counts: serial table
    sc_cgroup,                   \* syscall counts: per-cgroup counters, by family
    rq_counters,                 \* runqueue: per-CPU counters
    rq_cgroup_info,              \* runqueue: cgroup ring buffer
    rq_cgroup_serial_numbers,    \* runqueue: serial table
    rq_cgroup,                   \* runqueue: cgroup_ivcsw, cgroup_runq_wait, cgroup_offcpu
    rq_at,                       \* runqueue: enqueued_at, offcpu_at, running_at
    rq_hist,                     \* runqueue: runqlat, running, offcpu histograms
    blk_start,                   \* blockio latency: request -> start timestamp
    blk_hist,                    \* blockio latency: per-operation latency histograms
    sl_start,                    \* syscall latency: tid -> start timestamp
    sl_counters,                 \* syscall latency: per-CPU counters
    sl_hist,                     \* syscall latency: total (0) and per-family histograms
    cu_softirq_start,            \* cpu usage: per-CPU softirq start timestamp
    cu_softirq,                  \* cpu usage: per-CPU softirq counts
    cu_softirq_time,             \* cpu usage: per-CPU softirq time
    cu_cpu_usage,                \* cpu usage: per-CPU usage by category
    conn_start,                  \* tcp connect latency: socket -> start timestamp
    conn_latency,                \* tcp connect latency: histogram
    pkt_start,                   \* tcp packet latency: socket -> start timestamp
    pkt_latency,                 \* tcp packet latency: histogram
    indexer,                     \* histogram indexer: inputs drawn, results computed
    larger_array,                \* array_set_if_larger: the array map of the calls
    larger_ctx,                  \* array_set_if_larger: per CPU, position and locals
    larger_log,                  \* array_set_if_larger: what the calls were asked to do
    cu_task,                     \* cpu usage: task rings and per-pid maps
    cu_cgroup,                   \* cpu usage: cgroup ring, serial table, per-cgroup maps
    task_start_time,             \* kernel: start_time of the task that holds each pid
    task_exited,                 \* kernel: the pids whose task has exited
    perf,                        \* perf, frequency: cgroup ring, serial table, counters
    requests,                    \* blockio requests: per-CPU counters, size histograms
    bandwidth,                   \* bandwidth, throttled: rings, serial table, maps
    cfs_throttled,               \* kernel: per CPU, throttled_clock of each cgroup's cfs_rq
    epoch_seen,                  \* when the serial stored for each cgroup id was first seen
    mig,                         \* migrations: cgroup ring, serial table, counters, last_cpu
    mig_ctx,                     \* migrations: per CPU, position and locals of the probe
    softnet                      \* softnet: counters, cpu_context; kernel: net_rx_action runs

envVars == <<sampler, css_serial, ctx>>
tlbVars == <<tlb_events, tlb_cgroup_info, tlb_cgroup_serial_numbers, tlb_cgroup>>
scVars == <<sc_counters, sc_cgroup_info, sc_cgroup_serial_numbers, sc_cgroup>>
rqVars == <<rq_counters, rq_cgroup_info, rq_cgroup_serial_numbers, rq_cgroup, rq_at, rq_hist>>
blkVars == <<blk_start, blk_hist>>
slVars == <<sl_start, sl_counters, sl_hist>>
cuVars == <<cu_softirq_start, cu_softirq, cu_softirq_time, cu_cpu_usage>>
connVars == <<conn_start, conn_latency>>
pktVars == <<pkt_start, pkt_latency>>
histVars == <<build, indexer>>
largerVars == <<larger_array, larger_ctx, larger_log>>
usageVars == <<cu_task, cu_cgroup, task_start_time, task_exited>>
throttleVars == <<bandwidth, cfs_throttled, epoch_seen>>
lateVars == <<mig, mig_ctx, softnet>>
moreVars == <<perf, requests, throttleVars, lateVars>>
auxVars == <<histVars, largerVars, usageVars, moreVars>>
vars == <<envVars, nevents, last, tlbVars, scVars, rqVars,
          blkVars, slVars, cuVars, connVars, pktVars, auxVars>>

\* frame conditions: a probe changes the maps of its own sampler only
OnlyEnv == UNCHANGED <<sampler, ctx, tlbVars, scVars, rqVars,
                       blkVars, slVars, cuVars, connVars, pktVars, auxVars>>
OnlyTlb == UNCHANGED <<envVars, scVars, rqVars, blkVars, slVars, cuVars, connVars, pktVars, auxVars>>
OnlySc == UNCHANGED <<envVars, tlbVars, rqVars, blkVars, slVars, cuVars, connVars, pktVars, auxVars>>
OnlyRq == UNCHANGED <<envVars, tlbVars, scVars, blkVars, slVars, cuVars, connVars, pktVars, auxVars>>
OnlyBlk == UNCHANGED <<envVars, tlbVars, scVars, rqVars, slVars, cuVars, connVars, pktVars, auxVars>>
OnlySl == UNCHANGED <<envVars, tlbVars, scVars, rqVars, blkVars, cuVars, connVars, pktVars, auxVars>>
OnlyCu == UNCHANGED <<envVars, tlbVars, scVars, rqVars, blkVars, slVars, connVars, pktVars, auxVars>>
OnlyConn == UNCHANGED <<envVars, tlbVars, scVars, rqVars, blkVars, slVars, cuVars, pktVars, auxVars>>
OnlyPkt == UNCHANGED <<envVars, tlbVars, scVars, rqVars, blkVars, slVars, cuVars, connVars, auxVars>>

REASON_TASK_SWITCH == 0
TlbReasons == 0 .. 4          \* REASON_TASK_SWITCH .. REASON_REMOTE_SEND_IPI
TlbReasonInputs == {0, 4}     \* reasons carried by the model's events
SyscallGroups == 0 .. 15      \* 0 = other, 1..15 = families
SyscallIds == {-1, 0, 1}      \* args->id carried by the model's events
\* the lookup table user space loads at startup: syscall 0 is in family 1,
\* syscall 3 in family 15, and syscall 2 holds a value that is no family
syscall_lut == (0 :> 1) @@ (2 :> 16) @@ (3 :> 15)
\* args->id of the syscall counts alone: negative, every kind of table
\* entry, and an id past the table
CountedIds == {-1, 0, 1, 2, 3, MAX_SYSCALL_ID}

HistOff == [pc |-> "off", grouping_power |-> 0, v1 |-> {}, v2 |-> {},
            idx1 |-> 0, idx2 |-> 0, lz |-> 0, buckets |-> EmptyArr]

LargerIdle == [pc |-> "idle", value |-> 0, elem |-> NullElem]

IdleCtx == [pc |-> "idle", reason |-> 0, group |-> 0, cgroup_id |-> 0,
            serial_nr |-> 0, level |-> 0, elem |-> NullElem, seen |-> 0]

InitEnv ==
    /\ nevents = 0
    /\ ctx = [c \in Cpus |-> IdleCtx]
    /\ last = [probe |-> "none"]
    /\ css_serial = [g \in CgroupIds |-> 1]

InitTlb ==
    /\ tlb_events = EmptyArr
    /\ tlb_cgroup_info = EmptyRing
    /\ tlb_cgroup_serial_numbers = EmptyArr
    /\ tlb_cgroup = [r \in TlbReasons |-> EmptyArr]

InitSc ==
    /\ sc_counters = EmptyArr
    /\ sc_cgroup_info = EmptyRing
    /\ sc_cgroup_serial_numbers = EmptyArr
    /\ sc_cgroup = [f \in SyscallGroups |-> EmptyArr]

InitRq ==
    /\ rq_counters = EmptyArr
    /\ rq_cgroup_info = EmptyRing
    /\ rq_cgroup_serial_numbers = EmptyArr
    /\ rq_cgroup = [ivcsw |-> EmptyArr, runq_wait |-> EmptyArr, offcpu |-> EmptyArr]
    /\ rq_at = [enqueued |-> EmptyArr, offcpu |-> EmptyArr, running |-> EmptyArr]
    /\ rq_hist = [runqlat |-> EmptyArr, running |-> EmptyArr, offcpu |-> EmptyArr]

Event(probe) == nevents < MaxEvents /\ nevents' = nevents + 1 /\ last' = probe

\* the same for the samplers that are followed for another number of events
EventWithin(bound, probe) == nevents < bound /\ nevents' = nevents + 1 /\ last' = probe

(***************************************************************************)
(* What a probe reads from a task.  A read through a NULL sched_task_group *)
(* faults inside bpf_probe_read_kernel and yields 0.                       *)
(***************************************************************************)
TaskCgroupId(tg) == IF tg = NoGroup THEN 0 ELSE tg
TaskSerial(tg) == IF tg = NoGroup THEN 0 ELSE css_serial[tg]
TaskLevel(tg) == IF tg = NoGroup THEN 0 ELSE CssLevel(tg)

(***************************************************************************)
(* Kernel: a cgroup is removed and its id is reused by a new css, which    *)
(* gets a larger serial number.  The root cgroup (id 0) is never removed.  *)
(***************************************************************************)
CgroupReuse(g) ==
    /\ g # 0
    /\ css_serial[g] < MaxSerial
    /\ Event([probe |-> "cgroup_reuse", id |-> g])
    /\ css_serial' = [css_serial EXCEPT ![g] = @ + 1]
    /\ OnlyEnv

(***************************************************************************)
(* User space consumes one record from the enabled sampler's cgroup ring.  *)
(***************************************************************************)
RingReadable(ring) == ring.consumer_pos < Len(ring.data)

RingConsume(ring) == [ring EXCEPT !.consumer_pos = @ + 1]

\* the cgroup ring buffer of the enabled sampler
CgRing ==
    CASE sampler = "tlb_flush" -> tlb_cgroup_info
      [] sampler = "syscall_counts" -> sc_cgroup_info
      [] sampler = "runqueue" -> rq_cgroup_info
      [] OTHER -> EmptyRing

Consume ==
    /\ RingReadable(CgRing)
    /\ Event([probe |-> "consume"])
    /\ tlb_cgroup_info' = IF sampler = "tlb_flush"
                          THEN RingConsume(tlb_cgroup_info) ELSE tlb_cgroup_info
    /\ sc_cgroup_info' = IF sampler = "syscall_counts"
                         THEN RingConsume(sc_cgroup_info) ELSE sc_cgroup_info
    /\ rq_cgroup_info' = IF sampler = "runqueue"
                         THEN RingConsume(rq_cgroup_info) ELSE rq_cgroup_info
    /\ UNCHANGED <<envVars, tlb_events, tlb_cgroup_serial_numbers, tlb_cgroup,
                   sc_counters, sc_cgroup_serial_numbers, sc_cgroup,
                   rq_counters, rq_cgroup_serial_numbers, rq_cgroup, rq_at, rq_hist,
                   blkVars, slVars, cuVars, connVars, pktVars, auxVars>>

(***************************************************************************)
(* raw_tp/tlb_flush                                                        *)
(***************************************************************************)
tlb_flush(cpu, reason, tg) ==
    LET idx == reason + TLB_COUNTER_GROUP_WIDTH * cpu
        cgroup_id == TaskCgroupId(tg)
        serial_nr == TaskSerial(tg)
        tracked == tg # NoGroup /\ cgroup_id # 0 /\ cgroup_id < MAX_CGROUPS
        new == tracked /\ ArrGet(tlb_cgroup_serial_numbers, cgroup_id) # serial_nr
        zeroed == IF new
                  THEN [r \in TlbReasons |->
                          ArrUpdate(tlb_cgroup[r], MAX_CGROUPS, cgroup_id, 0)]
                  ELSE tlb_cgroup
    IN  /\ sampler = "tlb_flush"
        /\ Event([probe |-> "tlb_flush", cpu |-> cpu, reason |-> reason, tg |-> tg])
        /\ tlb_events' = array_incr(tlb_events, MAX_CPUS * TLB_COUNTER_GROUP_WIDTH, idx)
        /\ tlb_cgroup_info' =
              IF new
              THEN bpf_ringbuf_output(tlb_cgroup_info,
                                      CgroupInfo(cgroup_id, TaskLevel(tg), serial_nr))
              ELSE tlb_cgroup_info
        /\ tlb_cgroup_serial_numbers' =
              IF new
              THEN ArrUpdate(tlb_cgroup_serial_numbers, MAX_CGROUPS, cgroup_id, serial_nr)
              ELSE tlb_cgroup_serial_numbers
        /\ tlb_cgroup' =
              IF tracked /\ reason \in TlbReasons
              THEN [zeroed EXCEPT ![reason] = array_incr(@, MAX_CGROUPS, cgroup_id)]
              ELSE zeroed
        /\ OnlyTlb

(***************************************************************************)
(* handle_new_cgroup (agent/bpf/cgroup.h): returns the return value and    *)
(* the serial table and ring buffer it leaves behind.                      *)
(***************************************************************************)
\* handle_new_cgroup without the comparison of the stored serial number
handle_new_cgroup_nocheck(tg, cgroup_serial_numbers, cgroup_info_ringbuf) ==
    LET cgroup_id == TaskCgroupId(tg)
        serial_nr == TaskSerial(tg)
        unchanged(ret) == [ret |-> ret, serials |-> cgroup_serial_numbers,
                           ring |-> cgroup_info_ringbuf]
    IN  IF cgroup_id >= MAX_CGROUPS THEN unchanged(-1)
        ELSE IF cgroup_id < 0 THEN unchanged(-1)
        ELSE [ret |-> 0,
              ring |-> bpf_ringbuf_output(cgroup_info_ringbuf,
                           CgroupInfo(cgroup_id, TaskLevel(tg), serial_nr)),
              serials |-> ArrUpdate(cgroup_serial_numbers, MAX_CGROUPS,
                                    cgroup_id, serial_nr)]

handle_new_cgroup(tg, cgroup_serial_numbers, cgroup_info_ringbuf) ==
    LET cgroup_id == TaskCgroupId(tg)
        serial_nr == TaskSerial(tg)
        unchanged(ret) == [ret |-> ret, serials |-> cgroup_serial_numbers,
                           ring |-> cgroup_info_ringbuf]
    IN  IF cgroup_id >= MAX_CGROUPS THEN unchanged(-1)
        ELSE IF cgroup_id < 0 THEN unchanged(-1)
        ELSE IF ArrGet(cgroup_serial_numbers, cgroup_id) = serial_nr THEN unchanged(1)
        ELSE [ret |-> 0,
              ring |-> bpf_ringbuf_output(cgroup_info_ringbuf,
                           CgroupInfo(cgroup_id, TaskLevel(tg), serial_nr)),
              serials |-> ArrUpdate(cgroup_serial_numbers, MAX_CGROUPS,
                                    cgroup_id, serial_nr)]

(***************************************************************************)
(* tracepoint/raw_syscalls/sys_enter of the syscall counts sampler         *)
(***************************************************************************)
\* a table value used as the family whatever it is
sc_group_unchecked(id) == IF id < MAX_SYSCALL_ID THEN ArrGet(syscall_lut, id) ELSE 0

sc_group(id) ==
    LET counter_offset == ArrGet(syscall_lut, id)
    IN  IF id < MAX_SYSCALL_ID /\ counter_offset # 0
           /\ counter_offset < SC_COUNTER_GROUP_WIDTH
        THEN counter_offset
        ELSE 0

sys_enter(cpu, id, tg) ==
    LET group == sc_group(id)
        idx == SC_COUNTER_GROUP_WIDTH * cpu + group
        cgroup_id == TaskCgroupId(tg)
        in_range == cgroup_id < MAX_CGROUPS
        r == handle_new_cgroup(tg, sc_cgroup_serial_numbers, sc_cgroup_info)
        zeroed == IF r.ret = 0
                  THEN [f \in SyscallGroups |->
                          ArrUpdate(sc_cgroup[f], MAX_CGROUPS, cgroup_id, 0)]
                  ELSE sc_cgroup
    IN  /\ sampler = "syscall_counts"
        /\ Event([probe |-> "sys_enter", cpu |-> cpu, id |-> id, tg |-> tg])
        /\ IF id < 0
           THEN UNCHANGED scVars
           ELSE /\ sc_counters' = array_incr(sc_counters,
                                     MAX_CPUS * SC_COUNTER_GROUP_WIDTH, idx)
                /\ sc_cgroup_info' = IF in_range THEN r.ring ELSE sc_cgroup_info
                /\ sc_cgroup_serial_numbers' =
                      IF in_range THEN r.serials ELSE sc_cgroup_serial_numbers
                /\ sc_cgroup' =
                      IF in_range
                      THEN [zeroed EXCEPT ![group] = array_incr(@, MAX_CGROUPS, cgroup_id)]
                      ELSE sc_cgroup
        /\ OnlySc

(***************************************************************************)
(* Runqueue sampler.  The probes are written as transformations of the     *)
(* sampler's maps, gathered in one record.                                 *)
(***************************************************************************)
RqState == [counters |-> rq_counters, info |-> rq_cgroup_info,
            serials |-> rq_cgroup_serial_numbers, cgroup |-> rq_cgroup,
            at |-> rq_at, hist |-> rq_hist]

RqStore(st) ==
    /\ rq_counters' = st.counters
    /\ rq_cgroup_info' = st.info
    /\ rq_cgroup_serial_numbers' = st.serials
    /\ rq_cgroup' = st.cgroup
    /\ rq_at' = st.at
    /\ rq_hist' = st.hist

\* an enqueue that leaves no timestamp
trace_enqueue_dropped(st, pid, ts) == st

\* trace_enqueue: record the enqueue timestamp
trace_enqueue(st, pid, ts) ==
    IF pid = 0 THEN st
    ELSE [st EXCEPT !.at.enqueued = ArrUpdate(@, MAX_PID, pid, ts)]

\* tp_btf/sched_wakeup and tp_btf/sched_wakeup_new
handle__sched_wakeup(pid, ts) ==
    /\ sampler = "runqueue"
    /\ Event([probe |-> "sched_wakeup", pid |-> pid, ts |-> ts])
    /\ RqStore(trace_enqueue(RqState, pid, ts))
    /\ OnlyRq

\* the new-cgroup block that handle__sched_switch runs for prev and for next
rq_new_cgroup(st, tg) ==
    LET cgroup_id == TaskCgroupId(tg)
        serial_nr == TaskSerial(tg)
    IN  IF cgroup_id # 0 /\ cgroup_id < MAX_CGROUPS
           /\ ArrGet(st.serials, cgroup_id) # serial_nr
        THEN [st EXCEPT
                !.cgroup = [ivcsw |-> ArrUpdate(@.ivcsw, MAX_CGROUPS, cgroup_id, 0),
                            runq_wait |-> ArrUpdate(@.runq_wait, MAX_CGROUPS, cgroup_id, 0),
                            offcpu |-> ArrUpdate(@.offcpu, MAX_CGROUPS, cgroup_id, 0)],
                !.info = bpf_ringbuf_output(@, CgroupInfo(cgroup_id, TaskLevel(tg), serial_nr)),
                !.serials = ArrUpdate(@, MAX_CGROUPS, cgroup_id, serial_nr)]
        ELSE st

\* prev was TASK_RUNNING: involuntary switch, re-enqueue, running time
rq_prev_running(st, cpu, ts, pid, cgroup_id) ==
    LET tsp == ArrGet(st.at.running, pid)
        s1 == [st EXCEPT
                 !.counters = array_incr(@, MAX_CPUS * RQ_COUNTER_GROUP_WIDTH,
                                         RQ_COUNTER_GROUP_WIDTH * cpu + IVCSW),
                 !.cgroup.ivcsw = array_incr(@, MAX_CGROUPS, cgroup_id),
                 !.at.enqueued = ArrUpdate(@, MAX_PID, pid, ts)]
    IN  IF pid < MAX_PID /\ tsp # 0
        THEN [s1 EXCEPT
                 !.hist.running = histogram_incr(@, HISTOGRAM_BUCKETS_POW_3,
                                                 RQ_HISTOGRAM_POWER, U64(WSub(ts, tsp))),
                 !.at.running = ArrPut(@, pid, 0)]
        ELSE s1

\* next is switched in: runqueue wait and off-cpu time
rq_next_running(st, cpu, ts, pid, cgroup_id) ==
    LET enq == ArrGet(st.at.enqueued, pid)
        off == ArrGet(st.at.offcpu, pid)
        delta_ns == WSub(ts, enq)
        offcpu_ns == WSub(ts, off)
        s1 == [st EXCEPT
                 !.hist.runqlat = histogram_incr(@, HISTOGRAM_BUCKETS_POW_3,
                                                 RQ_HISTOGRAM_POWER, U64(delta_ns)),
                 !.counters = array_add(@, MAX_CPUS * RQ_COUNTER_GROUP_WIDTH,
                                        RQ_COUNTER_GROUP_WIDTH * cpu + RUNQ_WAIT, delta_ns),
                 !.cgroup.runq_wait = array_add(@, MAX_CGROUPS, cgroup_id, delta_ns),
                 !.at.enqueued = ArrPut(@, pid, 0)]
        s2 == IF offcpu_ns > delta_ns
              THEN [s1 EXCEPT
                      !.hist.offcpu = histogram_incr(@, HISTOGRAM_BUCKETS_POW_3,
                                          RQ_HISTOGRAM_POWER, U64(WSub(offcpu_ns, delta_ns))),
                      !.cgroup.offcpu = array_add(@, MAX_CGROUPS, cgroup_id, delta_ns)]
              ELSE s1
    IN  IF pid < MAX_PID /\ enq # 0
        THEN IF off # 0 THEN [s2 EXCEPT !.at.offcpu = ArrPut(@, pid, 0)] ELSE s1
        ELSE st

\* tp_btf/sched_switch.  `uninit` is the value the local cgroup_id holds when
\* prev has no task group: the variable is read without having been assigned.
handle__sched_switch(cpu, ts, prev, prev_running, prev_tg, next, next_tg, uninit) ==
    LET cgroup_id1 == IF prev_tg # NoGroup THEN TaskCgroupId(prev_tg) ELSE uninit
        s1 == IF prev_tg # NoGroup THEN rq_new_cgroup(RqState, prev_tg) ELSE RqState
        s2 == IF prev_running THEN rq_prev_running(s1, cpu, ts, prev, cgroup_id1) ELSE s1
        s3 == [s2 EXCEPT !.at.offcpu = ArrUpdate(@, MAX_PID, prev, ts)]
        cgroup_id2 == IF next_tg # NoGroup THEN TaskCgroupId(next_tg) ELSE cgroup_id1
        s4 == IF next_tg # NoGroup THEN rq_new_cgroup(s3, next_tg) ELSE s3
        s5 == [s4 EXCEPT !.at.running = ArrUpdate(@, MAX_PID, next, ts)]
        s6 == rq_next_running(s5, cpu, ts, next, cgroup_id2)
    IN  /\ sampler = "runqueue"
        /\ Event([probe |-> "sched_switch", cpu |-> cpu, ts |-> ts, prev |-> prev,
                  prev_running |-> prev_running, prev_tg |-> prev_tg,
                  next |-> next, next_tg |-> next_tg])
        /\ prev # next
        /\ RqStore(s6)
        /\ OnlyRq

(***************************************************************************)
(* BPF hash maps: a finite function from keys to values that holds at most *)
(* max_entries keys.  An update with BPF_ANY overwrites a present key; an  *)
(* update with NO_EXIST (BPF_NOEXIST) fails on a present key; inserting a  *)
(* new key fails when the map is full.  Callers ignore the failure.        *)
(***************************************************************************)
EmptyHash == [k \in {} |-> 0]

\* an update that inserts whatever the number of keys held
hash_update_unbounded(map, max_entries, key, value, flags) ==
    IF key \in DOMAIN map
    THEN IF flags = NO_EXIST THEN map ELSE [map EXCEPT ![key] = value]
    ELSE [k \in (DOMAIN map) \cup {key} |-> IF k = key THEN value ELSE map[k]]

hash_update(map, max_entries, key, value, flags) ==
    IF key \in DOMAIN map
    THEN IF flags = NO_EXIST THEN map ELSE [map EXCEPT ![key] = value]
    ELSE IF Cardinality(DOMAIN map) >= max_entries
         THEN map
         ELSE [k \in (DOMAIN map) \cup {key} |-> IF k = key THEN value ELSE map[k]]

\* a delete that leaves the key in place
hash_delete_kept(map, key) == map

hash_delete(map, key) == [k \in (DOMAIN map) \ {key} |-> map[k]]

(***************************************************************************)
(* Block I/O latency sampler                                               *)
(***************************************************************************)
InitBlk ==
    /\ blk_start = EmptyHash
    /\ blk_hist = [read |-> EmptyArr, write |-> EmptyArr,
                   flush |-> EmptyArr, discard |-> EmptyArr]

\* the start that is stored for a request, 0 when there is none
BlkStartOf(rq) == IF rq \in DOMAIN blk_start THEN blk_start[rq] ELSE 0

\* a start that keeps the timestamp that is already stored for the request
trace_rq_start_first_wins(rq, issue, ts) ==
    /\ sampler = "blockio_latency"
    /\ Event([probe |-> "block_rq_start", rq |-> rq, issue |-> issue, ts |-> ts,
              old |-> BlkStartOf(rq)])
    /\ blk_start' = hash_update(blk_start, HashSlots, rq, ts, NO_EXIST)
    /\ UNCHANGED blk_hist
    /\ OnlyBlk

\* raw_tp/block_rq_insert (issue = FALSE) and raw_tp/block_rq_issue (issue = TRUE)
trace_rq_start(rq, issue, ts) ==
    /\ sampler = "blockio_latency"
    /\ Event([probe |-> "block_rq_start", rq |-> rq, issue |-> issue, ts |-> ts,
              old |-> BlkStartOf(rq)])
    /\ blk_start' = hash_update(blk_start, HashSlots, rq, ts, BPF_ANY)
    /\ UNCHANGED blk_hist
    /\ OnlyBlk

\* the body of handle_block_rq_complete once the start has been found
blk_record(hist, op, tsp, ts) ==
    LET idx == value_to_index(U64(WSub(ts, tsp)), BLK_HISTOGRAM_POWER)
    IN  IF tsp <= ts
        THEN CASE op = REQ_OP_READ ->
                    [hist EXCEPT !.read = array_incr(@, HISTOGRAM_BUCKETS_POW_3, idx)]
               [] op = REQ_OP_WRITE ->
                    [hist EXCEPT !.write = array_incr(@, HISTOGRAM_BUCKETS_POW_3, idx)]
               [] op = REQ_OP_FLUSH ->
                    [hist EXCEPT !.flush = array_incr(@, HISTOGRAM_BUCKETS_POW_3, idx)]
               [] op = REQ_OP_DISCARD ->
                    [hist EXCEPT !.discard = array_incr(@, HISTOGRAM_BUCKETS_POW_3, idx)]
               [] OTHER -> hist
        ELSE hist

\* raw_tp/block_rq_complete
handle_block_rq_complete(rq, cmd_flags, ts) ==
    /\ sampler = "blockio_latency"
    /\ Event([probe |-> "block_rq_complete", rq |-> rq, cmd_flags |-> cmd_flags, ts |-> ts])
    /\ IF rq \notin DOMAIN blk_start
       THEN UNCHANGED blkVars
       ELSE /\ blk_hist' = blk_record(blk_hist, cmd_flags % (REQ_OP_MASK + 1),
                                      blk_start[rq], ts)
            /\ blk_start' = hash_delete(blk_start, rq)
    /\ OnlyBlk

(***************************************************************************)
(* Syscall latency sampler                                                 *)
(***************************************************************************)
SlFamilies == 0 .. 7     \* histogram 0 is total_latency, 1..7 the families

InitSl ==
    /\ sl_start = EmptyArr
    /\ sl_counters = EmptyArr
    /\ sl_hist = [f \in SlFamilies |-> EmptyArr]

\* tracepoint/raw_syscalls/sys_enter
sl_sys_enter(tid, ts) ==
    /\ sampler = "syscall_latency"
    /\ Event([probe |-> "sl_sys_enter", tid |-> tid, ts |-> ts])
    /\ sl_start' = ArrUpdate(sl_start, MAX_PID, tid, ts)
    /\ UNCHANGED <<sl_counters, sl_hist>>
    /\ OnlySl

sl_family(id) ==
    LET counter_offset == ArrGet(syscall_lut, id)
    IN  IF id < MAX_SYSCALL_ID /\ counter_offset # 0
           /\ counter_offset < SL_COUNTER_GROUP_WIDTH
        THEN counter_offset
        ELSE 0

\* the latency part of sys_exit, once a non-zero start has been found
sl_record(hist, id, start_ts, now) ==
    LET lat == WSub(now, start_ts)
        idx == value_to_index(U64(lat), SL_HISTOGRAM_POWER)
        h1 == [hist EXCEPT ![0] = array_incr(@, HISTOGRAM_BUCKETS_POW_7, idx)]
        f == sl_family(id)
    IN  IF f # 0
        THEN [h1 EXCEPT ![f] = array_incr(@, HISTOGRAM_BUCKETS_POW_7, idx)]
        ELSE h1

\* tracepoint/raw_syscalls/sys_exit
sl_sys_exit(cpu, tid, id, now) ==
    LET offset == SL_COUNTER_GROUP_WIDTH * cpu
        max == MAX_CPUS * SL_COUNTER_GROUP_WIDTH
        c1 == array_incr(sl_counters, max, offset)
        f == sl_family(id)
        c2 == IF f # 0 THEN array_incr(c1, max, offset + f) ELSE c1
        start_ts == ArrGet(sl_start, tid)
    IN  /\ sampler = "syscall_latency"
        /\ Event([probe |-> "sl_sys_exit", cpu |-> cpu, tid |-> tid, id |-> id, ts |-> now])
        /\ IF id < 0
           THEN UNCHANGED slVars
           ELSE /\ sl_counters' = c2
                /\ IF tid >= MAX_PID \/ start_ts = 0
                   THEN UNCHANGED <<sl_start, sl_hist>>
                   ELSE /\ sl_start' = ArrPut(sl_start, tid, 0)
                        /\ sl_hist' = sl_record(sl_hist, id, start_ts, now)
        /\ OnlySl

(***************************************************************************)
(* CPU usage sampler: softirq timing                                       *)
(***************************************************************************)
InitCu ==
    /\ cu_softirq_start = EmptyArr
    /\ cu_softirq = EmptyArr
    /\ cu_softirq_time = EmptyArr
    /\ cu_cpu_usage = EmptyArr

\* an entry that counts in groups of the width of cpu_usage
softirq_enter_packed(cpu, vec, ts) ==
    /\ sampler = "cpu_usage"
    /\ Event([probe |-> "softirq_enter", cpu |-> cpu, vec |-> vec, ts |-> ts])
    /\ cu_softirq_start' = ArrUpdate(cu_softirq_start, MAX_CPUS, cpu, ts)
    /\ cu_softirq' = array_incr(cu_softirq, MAX_CPUS * SOFTIRQ_GROUP_WIDTH,
                                cpu * CPU_USAGE_GROUP_WIDTH + vec)
    /\ UNCHANGED <<cu_softirq_time, cu_cpu_usage>>
    /\ OnlyCu

\* tracepoint/irq/softirq_entry
softirq_enter(cpu, vec, ts) ==
    /\ sampler = "cpu_usage"
    /\ Event([probe |-> "softirq_enter", cpu |-> cpu, vec |-> vec, ts |-> ts])
    /\ cu_softirq_start' = ArrUpdate(cu_softirq_start, MAX_CPUS, cpu, ts)
    /\ cu_softirq' = array_incr(cu_softirq, MAX_CPUS * SOFTIRQ_GROUP_WIDTH,
                                cpu * SOFTIRQ_GROUP_WIDTH + vec)
    /\ UNCHANGED <<cu_softirq_time, cu_cpu_usage>>
    /\ OnlyCu

\* tracepoint/irq/softirq_exit
softirq_exit(cpu, vec, now) ==
    LET start_ts == ArrGet(cu_softirq_start, cpu)
        dur == WSub(now, start_ts)
    IN  /\ sampler = "cpu_usage"
        /\ Event([probe |-> "softirq_exit", cpu |-> cpu, vec |-> vec, ts |-> now])
        /\ IF cpu >= MAX_CPUS \/ start_ts = 0
           THEN UNCHANGED cuVars
           ELSE /\ cu_cpu_usage' = array_add(cu_cpu_usage, MAX_CPUS * CPU_USAGE_GROUP_WIDTH,
                                             CPU_USAGE_GROUP_WIDTH * cpu + SOFTIRQ_OFFSET, dur)
                /\ cu_softirq_time' = array_add(cu_softirq_time,
                                                MAX_CPUS * SOFTIRQ_GROUP_WIDTH,
                                                SOFTIRQ_GROUP_WIDTH * cpu + vec, dur)
                /\ cu_softirq_start' = ArrPut(cu_softirq_start, cpu, 0)
                /\ UNCHANGED cu_softirq
        /\ OnlyCu

(***************************************************************************)
(* CPU usage sampler: task accounting.  The kernel gives every task a      *)
(* start_time; a pid that is reused belongs to a task with a later one.    *)
(* The idle task holds pid 0 and start_time 0.  A task exits once; it is   *)
(* switched out a last time after that.  A task_info record carries        *)
(* the pid and names read from the task: `epoch` stands for the names, as  *)
(* the start_time of the task they were read from.                         *)
(***************************************************************************)
UsagePids == {0, 1, 2}

\* the task groups a pid's task is seen in
UsageGroups(pid) ==
    CASE pid = 1 -> {1, NoGroup}
      [] pid = 2 -> {0, MAX_CGROUPS}
      [] OTHER -> {0}

TaskInfo(pid, cglevel, start) == [pid |-> pid, cglevel |-> cglevel, epoch |-> start]

TaskExit(pid, start) == [pid |-> pid, epoch |-> start]

InitUsage ==
    /\ cu_task = [info |-> EmptyRing, exit |-> EmptyRing, start |-> EmptyArr,
                  syscall_depth |-> EmptyArr, last_switch |-> EmptyArr,
                  usage |-> EmptyArr]
    /\ cu_cgroup = [info |-> EmptyRing, serial_numbers |-> EmptyArr,
                    user |-> EmptyArr, system |-> EmptyArr]
    /\ task_start_time = [p \in UsagePids |-> IF p = 0 THEN 0 ELSE 1]
    /\ task_exited = {}

OnlyUsage == UNCHANGED <<envVars, tlbVars, scVars, rqVars, blkVars, slVars,
                         cu_softirq_start, cu_softirq, cu_softirq_time,
                         connVars, pktVars, histVars, largerVars, moreVars>>

\* bpf_ktime_get_ns(): the clock advances with every event
Now == nevents + 1

UsageState == [cpu_usage |-> cu_cpu_usage, task |-> cu_task, cgroup |-> cu_cgroup]

UsageStore(st) ==
    /\ cu_cpu_usage' = st.cpu_usage
    /\ cu_task' = st.task
    /\ cu_cgroup' = st.cgroup

update_pid_info(st, pid, tg) ==
    LET start == task_start_time[pid]
        cgroup_id == TaskCgroupId(tg)
        announced == IF tg # NoGroup
                     THEN cgroup_id # 0 /\ cgroup_id < MAX_CGROUPS
                     ELSE TRUE
    IN  IF pid >= MAX_PID THEN st
        ELSE IF ArrGet(st.task.start, pid) # start
        THEN [st EXCEPT
              !.task.usage = ArrUpdate(@, MAX_PID, pid, 0),
              !.task.info = IF announced
                            THEN bpf_ringbuf_output(@, TaskInfo(pid, TaskLevel(tg), start))
                            ELSE @,
              !.task.start = ArrUpdate(@, MAX_PID, pid, start)]
        ELSE st

update_cgroup_info(st, tg) ==
    LET cgroup_id == TaskCgroupId(tg)
        serial_nr == TaskSerial(tg)
    IN  IF tg = NoGroup THEN st
        ELSE IF /\ cgroup_id # 0 /\ cgroup_id < MAX_CGROUPS
                /\ ArrGet(st.cgroup.serial_numbers, cgroup_id) # serial_nr
        THEN [st EXCEPT
              !.cgroup.user = ArrUpdate(@, MAX_CGROUPS, cgroup_id, 0),
              !.cgroup.system = ArrUpdate(@, MAX_CGROUPS, cgroup_id, 0),
              !.cgroup.info = bpf_ringbuf_output(@, CgroupInfo(cgroup_id, TaskLevel(tg),
                                                               serial_nr)),
              !.cgroup.serial_numbers = ArrUpdate(@, MAX_CGROUPS, cgroup_id, serial_nr)]
        ELSE st

\* what update_cgroup_info returns
update_cgroup_info_id(tg) == IF tg = NoGroup THEN 0 ELSE TaskCgroupId(tg)

\* the time since the last switch goes to the CPU, the cgroup and the task
cu_account(st, cpu, pid, cgroup_id, delta, offset) ==
    LET s1 == IF cpu < MAX_CPUS
              THEN [st EXCEPT !.cpu_usage =
                       array_add(@, MAX_CPUS * CPU_USAGE_GROUP_WIDTH,
                                 CPU_USAGE_GROUP_WIDTH * cpu + offset, delta)]
              ELSE st
        s2 == IF cgroup_id = 0 THEN s1
              ELSE IF offset = USER_OFFSET
              THEN [s1 EXCEPT !.cgroup.user = array_add(@, MAX_CGROUPS, cgroup_id, delta)]
              ELSE [s1 EXCEPT !.cgroup.system = array_add(@, MAX_CGROUPS, cgroup_id, delta)]
    IN  [s2 EXCEPT !.task.usage = array_add(@, MAX_PID, pid, delta)]

\* tp_btf/sched_switch
cu_handle__sched_switch(cpu, prev, prev_tg, next, next_tg) ==
    LET now == Now
        accounted == prev > 0 /\ prev < MAX_PID
        last_switch == ArrGet(cu_task.last_switch, prev)
        s1 == IF accounted
              THEN update_pid_info(update_cgroup_info(UsageState, prev_tg), prev, prev_tg)
              ELSE UsageState
        offset == IF ArrGet(cu_task.syscall_depth, prev) = 0
                  THEN USER_OFFSET ELSE SYSTEM_OFFSET
        s2 == IF accounted
              THEN cu_account(s1, cpu, prev, update_cgroup_info_id(prev_tg),
                              WSub(now, last_switch), offset)
              ELSE s1
        s3 == update_pid_info(update_cgroup_info(s2, next_tg), next, next_tg)
        s4 == IF next # 0
              THEN [s3 EXCEPT !.task.last_switch = ArrUpdate(@, MAX_PID, next, now)]
              ELSE s3
    IN  /\ sampler = "cpu_usage"
        /\ prev # next
        /\ next \notin task_exited
        /\ Event([probe |-> "cu_sched_switch", cpu |-> cpu, now |-> now,
                  prev |-> prev, prev_tg |-> prev_tg, next |-> next, next_tg |-> next_tg])
        /\ UsageStore(IF accounted /\ last_switch = 0 THEN s1 ELSE s4)
        /\ UNCHANGED <<task_start_time, task_exited>>
        /\ OnlyUsage

\* tracepoint/raw_syscalls/sys_enter.  The depth is read after it was
\* incremented, so the probe goes on only when the increment wrapped to 0.
cu_sys_enter(cpu, pid, tg) ==
    LET now == Now
        s1 == [UsageState EXCEPT !.task.syscall_depth = array_incr(@, MAX_PID, pid)]
        s2 == [s1 EXCEPT !.task.last_switch = ArrUpdate(@, MAX_PID, pid, now)]
        missed == ArrGet(s2.task.last_switch, pid) = 0
        delta == WSub(now, ArrGet(s2.task.last_switch, pid))
        cgroup_id == update_cgroup_info_id(tg)
        s3 == cu_account(update_pid_info(update_cgroup_info(s2, tg), pid, tg), cpu, pid,
                         IF cgroup_id > 0 /\ cgroup_id < MAX_CGROUPS THEN cgroup_id ELSE 0,
                         delta, USER_OFFSET)
    IN  /\ sampler = "cpu_usage"
        /\ pid \notin task_exited
        /\ Event([probe |-> "cu_sys_enter", cpu |-> cpu, now |-> now, pid |-> pid,
                  tg |-> tg])
        /\ UsageStore(IF pid >= MAX_PID THEN UsageState
                      ELSE IF ArrGet(s1.task.syscall_depth, pid) > 0 THEN s1
                      ELSE IF missed THEN s2
                      ELSE s3)
        /\ UNCHANGED <<task_start_time, task_exited>>
        /\ OnlyUsage

\* array_decr: the counterpart of array_incr, one is taken from the slot
array_decr(a, max_entries, idx) ==
    LET elem == bpf_map_lookup_elem(max_entries, idx)
    IN  IF elem # NullElem
        THEN ArrPut(a, elem, WSub(ArrGet(a, elem), 1))
        ELSE a

\* tracepoint/raw_syscalls/sys_exit.  The slot of task_last_switch is read
\* through the pointer after the slot was set to now.
cu_sys_exit(cpu, pid, tg) ==
    LET now == Now
        s1 == [UsageState EXCEPT !.task.syscall_depth = array_decr(@, MAX_PID, pid)]
        s2 == [s1 EXCEPT !.task.last_switch = ArrUpdate(@, MAX_PID, pid, now)]
        missed == ArrGet(s2.task.last_switch, pid) = 0
        delta == WSub(now, ArrGet(s2.task.last_switch, pid))
        s3 == cu_account(update_pid_info(update_cgroup_info(s2, tg), pid, tg), cpu, pid,
                         update_cgroup_info_id(tg), delta, SYSTEM_OFFSET)
    IN  /\ sampler = "cpu_usage"
        /\ pid \notin task_exited
        /\ Event([probe |-> "cu_sys_exit", cpu |-> cpu, now |-> now, pid |-> pid,
                  tg |-> tg])
        /\ UsageStore(IF pid >= MAX_PID THEN UsageState
                      ELSE IF ArrGet(cu_task.syscall_depth, pid) = 0 THEN UsageState
                      ELSE IF ArrGet(s1.task.syscall_depth, pid) # 0 THEN s1
                      ELSE IF missed THEN s2
                      ELSE s3)
        /\ UNCHANGED <<task_start_time, task_exited>>
        /\ OnlyUsage

\* a sched_process_exit that leaves the syscall depth of the pid behind
handle__sched_process_exit_keeps_depth(pid) ==
    /\ sampler = "cpu_usage"
    /\ pid \notin task_exited
    /\ Event([probe |-> "sched_process_exit", pid |-> pid])
    /\ task_exited' = task_exited \cup {pid}
    /\ cu_task' = [cu_task EXCEPT
                   !.usage = ArrUpdate(@, MAX_PID, pid, 0),
                   !.start = ArrUpdate(@, MAX_PID, pid, 0),
                   !.last_switch = ArrUpdate(@, MAX_PID, pid, 0),
                   !.exit = bpf_ringbuf_output(@, TaskExit(pid, task_start_time[pid]))]
    /\ UNCHANGED <<cu_cpu_usage, cu_cgroup, task_start_time>>
    /\ OnlyUsage

\* sched_process_exit: the per-pid state of the exiting task is zeroed and
\* its exit is announced
handle__sched_process_exit(pid) ==
    /\ sampler = "cpu_usage"
    /\ pid \notin task_exited
    /\ Event([probe |-> "sched_process_exit", pid |-> pid])
    /\ task_exited' = task_exited \cup {pid}
    /\ cu_task' = [cu_task EXCEPT
                   !.usage = ArrUpdate(@, MAX_PID, pid, 0),
                   !.start = ArrUpdate(@, MAX_PID, pid, 0),
                   !.last_switch = ArrUpdate(@, MAX_PID, pid, 0),
                   !.syscall_depth = ArrUpdate(@, MAX_PID, pid, 0),
                   !.exit = bpf_ringbuf_output(@, TaskExit(pid, task_start_time[pid]))]
    /\ UNCHANGED <<cu_cpu_usage, cu_cgroup, task_start_time>>
    /\ OnlyUsage

\* kernel: the task that held the pid is gone and a new task gets the pid
PidReuse(pid) ==
    /\ sampler = "cpu_usage"
    /\ pid # 0
    /\ task_start_time[pid] < MaxSerial
    /\ Event([probe |-> "pid_reuse", pid |-> pid])
    /\ task_start_time' = [task_start_time EXCEPT ![pid] = @ + 1]
    /\ task_exited' = task_exited \ {pid}
    /\ UNCHANGED <<cu_cpu_usage, cu_task, cu_cgroup>>
    /\ OnlyUsage

\* user space consumes one record from a task ring
TaskRings == {"info", "exit"}

cu_consume(name) ==
    /\ sampler = "cpu_usage"
    /\ RingReadable(cu_task[name])
    /\ Event([probe |-> "cu_consume", ring |-> name])
    /\ cu_task' = [cu_task EXCEPT ![name] = RingConsume(@)]
    /\ UNCHANGED <<cu_cpu_usage, cu_cgroup, task_start_time, task_exited>>
    /\ OnlyUsage

(***************************************************************************)
(* perf and frequency samplers: at every sched_switch the hardware         *)
(* counters of the CPU are read, and what they gained since the last       *)
(* switch on that CPU goes to the cgroup of the task that is switched out. *)
(***************************************************************************)
PerfCounters ==
    CASE sampler = "perf" -> {"cycles", "instructions"}
      [] sampler = "frequency" -> {"aperf", "mperf", "tsc"}
      [] OTHER -> {}

AllPerfCounters == {"cycles", "instructions", "aperf", "mperf", "tsc"}

InitPerf ==
    perf = [cgroup_info |-> EmptyRing, cgroup_serial_numbers |-> EmptyArr,
            cgroup |-> [k \in AllPerfCounters |-> EmptyArr],
            prev |-> [k \in AllPerfCounters |-> EmptyArr]]

OnlyPerf == UNCHANGED <<envVars, tlbVars, scVars, rqVars, blkVars, slVars, cuVars,
                        connVars, pktVars, histVars, largerVars, usageVars,
                        requests, throttleVars, lateVars>>

\* the counters of a cgroup that is seen with a new serial number are zeroed
\* and the cgroup is announced
perf_new_cgroup(st, tg) ==
    LET cgroup_id == TaskCgroupId(tg)
        serial_nr == TaskSerial(tg)
    IN  IF ArrGet(st.cgroup_serial_numbers, cgroup_id) # serial_nr
        THEN [st EXCEPT
              !.cgroup = [k \in AllPerfCounters |->
                            IF k \in PerfCounters
                            THEN ArrUpdate(@[k], MAX_CGROUPS, cgroup_id, 0) ELSE @[k]],
              !.cgroup_info = bpf_ringbuf_output(@, CgroupInfo(cgroup_id, TaskLevel(tg),
                                                               serial_nr)),
              !.cgroup_serial_numbers = ArrUpdate(@, MAX_CGROUPS, cgroup_id, serial_nr)]
        ELSE st

\* delta = reading - *elem, added to the cgroup's slot of every counter
perf_account(st, processor_id, cgroup_id, reading) ==
    [st EXCEPT
     !.cgroup = [k \in AllPerfCounters |->
                   IF k \in PerfCounters /\ processor_id < MAX_CGROUPS
                   THEN array_add(@[k], MAX_CGROUPS, cgroup_id,
                                  WSub(reading[k], ArrGet(st.prev[k], processor_id)))
                   ELSE @[k]]]

\* tp_btf/sched_switch of the perf and of the frequency sampler; reading
\* is what bpf_perf_event_read returns for each counter
perf_handle__sched_switch(processor_id, prev_tg, reading) ==
    LET cgroup_id == TaskCgroupId(prev_tg)
        s1 == IF cgroup_id # 0 /\ cgroup_id < MAX_CGROUPS
              THEN perf_account(perf_new_cgroup(perf, prev_tg), processor_id, cgroup_id,
                                reading)
              ELSE perf
    IN  /\ sampler \in {"perf", "frequency"}
        /\ prev_tg # NoGroup
        /\ Event([probe |-> "perf_sched_switch", cpu |-> processor_id,
                  prev_tg |-> prev_tg, reading |-> reading])
        /\ perf' = [s1 EXCEPT
                    !.prev = [k \in AllPerfCounters |->
                                IF k \in PerfCounters
                                THEN ArrUpdate(@[k], MAX_CGROUPS, processor_id, reading[k])
                                ELSE @[k]]]
        /\ OnlyPerf

\* user space consumes one record from the cgroup ring
perf_consume ==
    /\ sampler \in {"perf", "frequency"}
    /\ RingReadable(perf.cgroup_info)
    /\ Event([probe |-> "perf_consume"])
    /\ perf' = [perf EXCEPT !.cgroup_info = RingConsume(@)]
    /\ OnlyPerf

(***************************************************************************)
(* Block I/O requests sampler                                              *)
(***************************************************************************)
OnlyRequests == UNCHANGED <<envVars, tlbVars, scVars, rqVars, blkVars, slVars, cuVars,
                            connVars, pktVars, histVars, largerVars, usageVars,
                            perf, throttleVars, lateVars>>

\* an op that keeps the flag bits of cmd_flags
requests_op_unmasked(cmd_flags) == cmd_flags

\* op = cmd_flags & REQ_OP_MASK
requests_op(cmd_flags) == cmd_flags % (REQ_OP_MASK + 1)

\* the switch over op: one size histogram is incremented
requests_size(size, op, idx) ==
    CASE op = REQ_OP_READ ->
            [size EXCEPT !.read = array_incr(@, HISTOGRAM_BUCKETS_POW_3, idx)]
      [] op = REQ_OP_WRITE ->
            [size EXCEPT !.write = array_incr(@, HISTOGRAM_BUCKETS_POW_3, idx)]
      [] op = REQ_OP_FLUSH ->
            [size EXCEPT !.flush = array_incr(@, HISTOGRAM_BUCKETS_POW_3, idx)]
      [] op = REQ_OP_DISCARD ->
            [size EXCEPT !.discard = array_incr(@, HISTOGRAM_BUCKETS_POW_3, idx)]
      [] OTHER -> size

\* raw_tp/block_rq_complete
block_rq_complete(cpu, cmd_flags, nr_bytes) ==
    LET op == requests_op(cmd_flags)
        idx == REQUESTS_COUNTER_GROUP_WIDTH * cpu + op
        counted == array_incr(requests.counters, MAX_CPUS * REQUESTS_COUNTER_GROUP_WIDTH,
                              idx)
    IN  /\ sampler = "blockio_requests"
        /\ EventWithin(MaxCompletions,
                       [probe |-> "requests_rq_complete", cpu |-> cpu,
                        cmd_flags |-> cmd_flags, nr_bytes |-> nr_bytes])
        /\ requests' =
              IF op < REQUESTS_COUNTER_GROUP_WIDTH \div 2
              THEN [counters |-> array_add(counted,
                                           MAX_CPUS * REQUESTS_COUNTER_GROUP_WIDTH,
                                           idx + REQUESTS_COUNTER_GROUP_WIDTH \div 2,
                                           nr_bytes),
                    size |-> requests_size(requests.size, op,
                                           value_to_index(U64(nr_bytes),
                                                          REQUESTS_HISTOGRAM_POWER))]
              ELSE requests
        /\ OnlyRequests

InitRequests ==
    requests = [counters |-> EmptyArr,
                size |-> [read |-> EmptyArr, write |-> EmptyArr,
                          flush |-> EmptyArr, discard |-> EmptyArr]]

InitBandwidth ==
    /\ bandwidth = [cgroup_info |-> EmptyRing, bandwidth_info |-> EmptyRing,
                    cgroup_serial_numbers |-> EmptyArr, throttle_start |-> EmptyArr,
                    throttled_time |-> EmptyArr, throttled_count |-> EmptyArr]
    /\ epoch_seen = EmptyArr

(***************************************************************************)
(* CPU migrations sampler.  last_cpu holds, per pid, the CPU the task was  *)
(* last switched in on, stored one-indexed so that 0 means unknown.  The   *)
(* probe is written as transformations of the sampler's maps, which the    *)
(* atomic probe composes and the interleaved probe applies one at a time.  *)
(***************************************************************************)
MigPids == {0, 1, 2}

\* the task group of the task that holds a pid
MigGroupOf(pid) == CASE pid = 1 -> 1 [] pid = 2 -> MAX_CGROUPS [] OTHER -> 0

MigIdle == [pc |-> "idle", next |-> 0, tg |-> 0, old_cpu |-> 0]

InitMig ==
    /\ mig = [cgroup_info |-> EmptyRing, cgroup_serial_numbers |-> EmptyArr,
              cpu_migrations_from |-> EmptyArr, cpu_migrations_to |-> EmptyArr,
              cgroup_cpu_migrations |-> EmptyArr, last_cpu |-> EmptyArr]
    /\ mig_ctx = [c \in Cpus |-> MigIdle]

OnlyMig == UNCHANGED <<envVars, tlbVars, scVars, rqVars, blkVars, slVars, cuVars,
                       connVars, pktVars, histVars, largerVars, usageVars,
                       perf, requests, throttleVars, softnet>>

\* last_cpu_ptr && *last_cpu_ptr && old_cpu != cpu
mig_migrated(st, cpu, next) ==
    /\ bpf_map_lookup_elem(MAX_PID, next) # NullElem
    /\ ArrGet(st.last_cpu, next) # 0
    /\ ArrGet(st.last_cpu, next) - 1 # cpu

mig_count_from(st, old_cpu) ==
    [st EXCEPT !.cpu_migrations_from = array_incr(@, MAX_CPUS, old_cpu)]

\* a migration that is not counted for the CPU the task arrives on
mig_count_to_dropped(st, cpu) == st

mig_count_to(st, cpu) ==
    [st EXCEPT !.cpu_migrations_to = array_incr(@, MAX_CPUS, cpu)]

\* the per-cgroup accounting of a migration
mig_count_cgroup(st, tg) ==
    LET cgroup_id == TaskCgroupId(tg)
        serial_nr == TaskSerial(tg)
        s1 == IF ArrGet(st.cgroup_serial_numbers, cgroup_id) # serial_nr
              THEN [st EXCEPT
                      !.cgroup_cpu_migrations = ArrUpdate(@, MAX_CGROUPS, cgroup_id, 0),
                      !.cgroup_info = bpf_ringbuf_output(@, CgroupInfo(cgroup_id,
                                                         TaskLevel(tg), serial_nr)),
                      !.cgroup_serial_numbers = ArrUpdate(@, MAX_CGROUPS, cgroup_id,
                                                          serial_nr)]
              ELSE st
    IN  IF cgroup_id # 0 /\ cgroup_id < MAX_CGROUPS
        THEN [s1 EXCEPT !.cgroup_cpu_migrations = array_incr(@, MAX_CGROUPS, cgroup_id)]
        ELSE st

\* a store of the CPU as it is, zero-indexed
mig_store_zero_indexed(st, cpu, next) ==
    [st EXCEPT !.last_cpu = ArrUpdate(@, MAX_PID, next, cpu)]

\* cpu = cpu + 1; bpf_map_update_elem(&last_cpu, &next_pid, &cpu, BPF_ANY)
mig_store(st, cpu, next) ==
    [st EXCEPT !.last_cpu = ArrUpdate(@, MAX_PID, next, cpu + 1)]

\* tp_btf/sched_switch, the whole probe at once
mig_handle__sched_switch(cpu, next, next_tg) ==
    LET old_cpu == ArrGet(mig.last_cpu, next) - 1
        s1 == IF mig_migrated(mig, cpu, next)
              THEN mig_count_cgroup(mig_count_to(mig_count_from(mig, old_cpu), cpu),
                                    next_tg)
              ELSE mig
    IN  /\ sampler = "migrations"
        /\ Event([probe |-> "mig_sched_switch", cpu |-> cpu, next |-> next,
                  next_tg |-> next_tg])
        /\ mig' = IF next = 0 THEN mig ELSE mig_store(s1, cpu, next)
        /\ UNCHANGED mig_ctx
        /\ OnlyMig

\* the pids whose switch is being handled on some CPU; the kernel switches
\* a task in on one CPU at a time
MigInFlight == {mig_ctx[c].next : c \in {d \in Cpus : mig_ctx[d].pc # "idle"}}

\* the probe begins: pid 0 is skipped, last_cpu is looked up and compared
mig_enter(cpu, next, next_tg) ==
    /\ sampler = "migrations"
    /\ mig_ctx[cpu].pc = "idle"
    /\ next \notin MigInFlight
    /\ Event([probe |-> "mig_sched_switch", cpu |-> cpu, next |-> next,
              next_tg |-> next_tg])
    /\ mig_ctx' = [mig_ctx EXCEPT ![cpu] =
          IF next = 0 THEN MigIdle
          ELSE [pc |-> IF mig_migrated(mig, cpu, next) THEN "from" ELSE "store",
                next |-> next, tg |-> next_tg,
                old_cpu |-> IF mig_migrated(mig, cpu, next)
                            THEN ArrGet(mig.last_cpu, next) - 1 ELSE 0]]
    /\ UNCHANGED mig
    /\ OnlyMig

\* array_incr(&cpu_migrations_from, old_cpu)
mig_incr_from(cpu) ==
    /\ sampler = "migrations"
    /\ mig_ctx[cpu].pc = "from"
    /\ mig' = mig_count_from(mig, mig_ctx[cpu].old_cpu)
    /\ mig_ctx' = [mig_ctx EXCEPT ![cpu].pc = "to"]
    /\ UNCHANGED <<nevents, last>>
    /\ OnlyMig

\* array_incr(&cpu_migrations_to, cpu)
mig_incr_to(cpu) ==
    /\ sampler = "migrations"
    /\ mig_ctx[cpu].pc = "to"
    /\ mig' = mig_count_to(mig, cpu)
    /\ mig_ctx' = [mig_ctx EXCEPT ![cpu].pc = "cgroup"]
    /\ UNCHANGED <<nevents, last>>
    /\ OnlyMig

\* the per-cgroup accounting
mig_account_cgroup(cpu) ==
    /\ sampler = "migrations"
    /\ mig_ctx[cpu].pc = "cgroup"
    /\ mig' = mig_count_cgroup(mig, mig_ctx[cpu].tg)
    /\ mig_ctx' = [mig_ctx EXCEPT ![cpu].pc = "store"]
    /\ UNCHANGED <<nevents, last>>
    /\ OnlyMig

\* the store of the current CPU, and the probe returns
mig_store_cpu(cpu) ==
    /\ sampler = "migrations"
    /\ mig_ctx[cpu].pc = "store"
    /\ mig' = mig_store(mig, cpu, mig_ctx[cpu].next)
    /\ mig_ctx' = [mig_ctx EXCEPT ![cpu] = MigIdle]
    /\ UNCHANGED <<nevents, last>>
    /\ OnlyMig

(***************************************************************************)
(* Softnet sampler.  cpu_context holds, per CPU, the context of the        *)
(* net_rx_action that runs on it.  Kernel: `inside` are the CPUs that are  *)
(* in net_rx_action, `polled` and `more` the CPUs whose running            *)
(* net_rx_action has called a poll function and has had a poll function    *)
(* return with work left.  The clock does not go back.                     *)
(***************************************************************************)
SOFTNET_COUNTER_GROUP_WIDTH == 8
TIME_SQUEEZED == 0
BUDGET_EXHAUSTED == 1
PACKETS_PROCESSED == 2
POLL_COUNT == 3
SQUEEZE_NS == 900000

SoftnetTimes == {1, SQUEEZE_NS + 1, SQUEEZE_NS + 2}

SoftnetRets == {-1, 0, 1}

SoftnetCtx(start_time) ==
    [start_time |-> start_time, packets_processed |-> 0,
     found_work |-> 0, has_more_work |-> 0]

InitSoftnet ==
    softnet = [counters |-> EmptyArr, cpu_context |-> [c \in Cpus |-> SoftnetCtx(0)],
               inside |-> {}, polled |-> {}, more |-> {}, now |-> 0]

OnlySoftnet == UNCHANGED <<envVars, tlbVars, scVars, rqVars, blkVars, slVars, cuVars,
                           connVars, pktVars, histVars, largerVars, usageVars,
                           perf, requests, throttleVars, mig, mig_ctx>>

\* an entry that keeps the flags of the invocation before
net_rx_action_enter_keeps_flags(cpu, ts) ==
    /\ sampler = "softnet"
    /\ cpu \notin softnet.inside
    /\ ts >= softnet.now
    /\ EventWithin(MaxSoftnetEvents, [probe |-> "net_rx_action_enter", cpu |-> cpu, ts |-> ts])
    /\ softnet' = [softnet EXCEPT
          !.cpu_context[cpu].start_time = ts,
          !.cpu_context[cpu].packets_processed = 0,
          !.inside = @ \cup {cpu}, !.polled = @ \ {cpu}, !.more = @ \ {cpu},
          !.now = ts]
    /\ OnlySoftnet

\* kprobe/net_rx_action
net_rx_action_enter(cpu, ts) ==
    /\ sampler = "softnet"
    /\ cpu \notin softnet.inside
    /\ ts >= softnet.now
    /\ EventWithin(MaxSoftnetEvents, [probe |-> "net_rx_action_enter", cpu |-> cpu, ts |-> ts])
    /\ softnet' = [softnet EXCEPT
          !.cpu_context = IF bpf_map_lookup_elem(MAX_CPUS, cpu) # NullElem
                          THEN [@ EXCEPT ![cpu] = SoftnetCtx(ts)] ELSE @,
          !.inside = @ \cup {cpu}, !.polled = @ \ {cpu}, !.more = @ \ {cpu},
          !.now = ts]
    /\ OnlySoftnet

\* kprobe/__napi_poll
napi_poll_enter_fn(cpu) ==
    /\ sampler = "softnet"
    /\ cpu \in softnet.inside
    /\ EventWithin(MaxSoftnetEvents, [probe |-> "napi_poll_enter", cpu |-> cpu])
    /\ softnet' = [softnet EXCEPT
          !.cpu_context[cpu].found_work = 1,
          !.counters = array_incr(@, MAX_CPUS * SOFTNET_COUNTER_GROUP_WIDTH,
                                  SOFTNET_COUNTER_GROUP_WIDTH * cpu + POLL_COUNT),
          !.polled = @ \cup {cpu}]
    /\ OnlySoftnet

\* kretprobe/__napi_poll
napi_poll_exit_fn(cpu, ret) ==
    /\ sampler = "softnet"
    /\ cpu \in softnet.polled
    /\ EventWithin(MaxSoftnetEvents, [probe |-> "napi_poll_exit", cpu |-> cpu, ret |-> ret])
    /\ softnet' = [softnet EXCEPT
          !.cpu_context[cpu].has_more_work = IF ret > 0 THEN 1 ELSE @,
          !.more = IF ret > 0 THEN @ \cup {cpu} ELSE @]
    /\ OnlySoftnet

\* kprobe/napi_gro_receive
napi_gro_receive_kprobe(cpu) ==
    /\ sampler = "softnet"
    /\ cpu \in softnet.polled
    /\ EventWithin(MaxSoftnetEvents, [probe |-> "napi_gro_receive", cpu |-> cpu])
    /\ softnet' = [softnet EXCEPT
          !.cpu_context[cpu].packets_processed = WAdd(@, 1),
          !.counters = array_incr(@, MAX_CPUS * SOFTNET_COUNTER_GROUP_WIDTH,
                                  SOFTNET_COUNTER_GROUP_WIDTH * cpu + PACKETS_PROCESSED)]
    /\ OnlySoftnet

\* kretprobe/net_rx_action
net_rx_action_exit(cpu, ret, ts) ==
    LET cpu_ctx == softnet.cpu_context[cpu]
        offset == SOFTNET_COUNTER_GROUP_WIDTH * cpu
        duration == ts - cpu_ctx.start_time
        idx == IF /\ cpu_ctx.found_work # 0 /\ cpu_ctx.has_more_work # 0
                  /\ ret = 0 /\ duration > SQUEEZE_NS
               THEN offset + TIME_SQUEEZED
               ELSE IF ret > 0 THEN offset + BUDGET_EXHAUSTED
               ELSE NullElem
    IN  /\ sampler = "softnet"
        /\ cpu \in softnet.inside
        /\ ts >= softnet.now
        /\ EventWithin(MaxSoftnetEvents, [probe |-> "net_rx_action_exit", cpu |-> cpu, ret |-> ret, ts |-> ts,
                  polled |-> cpu \in softnet.polled, more |-> cpu \in softnet.more,
                  start |-> cpu_ctx.start_time])
        /\ softnet' = [softnet EXCEPT
              !.counters = IF idx # NullElem
                           THEN array_incr(@, MAX_CPUS * SOFTNET_COUNTER_GROUP_WIDTH, idx)
                           ELSE @,
              !.inside = @ \ {cpu},
              !.now = ts]
        /\ OnlySoftnet

InitMore ==
    /\ InitPerf
    /\ InitRequests
    /\ InitBandwidth
    /\ InitMig
    /\ InitSoftnet
    /\ cfs_throttled = [c \in Cpus |-> EmptyArr]

(***************************************************************************)
(* CPU bandwidth and CPU throttled samplers.  Both keep, per cgroup id,    *)
(* the start of a throttle, the throttled time and the throttle count; the *)
(* bandwidth sampler also announces the quota and the period of a group.   *)
(* Kernel: cfs_throttled[cpu] holds the throttled cfs_rqs of cpu, by       *)
(* cgroup id, each with the serial of its task group and the time it was   *)
(* throttled.  A cfs_rq is throttled when it is not, and unthrottled when  *)
(* it is; the cfs_rq of a removed group may still be unthrottled after the *)
(* id has gone to a new group.  epoch_seen[id] is the time at which the    *)
(* stored serial of id was stored.                                         *)
(***************************************************************************)
OnlyThrottle == UNCHANGED <<envVars, tlbVars, scVars, rqVars, blkVars, slVars, cuVars,
                            connVars, pktVars, histVars, largerVars, usageVars,
                            perf, requests, lateVars>>

\* quota and period the kernel holds for a task group
CfsBandwidths == {[quota |-> 1, period |-> 2], [quota |-> 2, period |-> 2]}

BandwidthInfo(id, cfs_b) == [id |-> id, quota |-> cfs_b.quota, period |-> cfs_b.period]

Tracked(cgroup_id) == cgroup_id # 0 /\ cgroup_id < MAX_CGROUPS

CfsThrottle(cpu, id) ==
    cfs_throttled' = [cfs_throttled EXCEPT ![cpu] =
        [k \in (DOMAIN cfs_throttled[cpu]) \cup {id} |->
            IF k = id THEN [serial |-> css_serial[id], since |-> Now]
            ELSE cfs_throttled[cpu][k]]]

CfsUnthrottle(cpu, id) ==
    cfs_throttled' = [cfs_throttled EXCEPT ![cpu] =
        [k \in (DOMAIN cfs_throttled[cpu]) \ {id} |-> cfs_throttled[cpu][k]]]

\* the new-cgroup block of tg_set_cfs_bandwidth and throttle_cfs_rq; the
\* throttle_cfs_rq of the bandwidth sampler announces the bandwidth in it
throttle_new_cgroup(st, cgroup_id, serial_nr, cfs_b, announce) ==
    IF ArrGet(st.cgroup_serial_numbers, cgroup_id) # serial_nr
    THEN [st EXCEPT
            !.throttled_time = ArrUpdate(@, MAX_CGROUPS, cgroup_id, 0),
            !.throttled_count = ArrUpdate(@, MAX_CGROUPS, cgroup_id, 0),
            !.cgroup_info = bpf_ringbuf_output(@,
                                CgroupInfo(cgroup_id, CssLevel(cgroup_id), serial_nr)),
            !.bandwidth_info = IF announce
                               THEN bpf_ringbuf_output(@, BandwidthInfo(cgroup_id, cfs_b))
                               ELSE @,
            !.cgroup_serial_numbers = ArrUpdate(@, MAX_CGROUPS, cgroup_id, serial_nr)]
    ELSE st

\* the time the stored serial of cgroup_id was stored
EpochSeen(cgroup_id, serial_nr) ==
    epoch_seen' =
        IF Tracked(cgroup_id)
           /\ ArrGet(bandwidth.cgroup_serial_numbers, cgroup_id) # serial_nr
        THEN ArrPut(epoch_seen, cgroup_id, Now)
        ELSE epoch_seen

\* kprobe/tg_set_cfs_bandwidth of the bandwidth sampler
tg_set_cfs_bandwidth(cgroup_id, cfs_b) ==
    LET serial_nr == css_serial[cgroup_id]
        s1 == throttle_new_cgroup(bandwidth, cgroup_id, serial_nr, cfs_b, FALSE)
        s2 == [s1 EXCEPT !.bandwidth_info =
                            bpf_ringbuf_output(@, BandwidthInfo(cgroup_id, cfs_b))]
    IN  /\ sampler = "bandwidth"
        /\ EventWithin(MaxThrottleEvents,
                       [probe |-> "tg_set_cfs_bandwidth", id |-> cgroup_id,
                        serial |-> serial_nr, ts |-> Now])
        /\ bandwidth' = IF Tracked(cgroup_id) THEN s2 ELSE bandwidth
        /\ EpochSeen(cgroup_id, serial_nr)
        /\ UNCHANGED cfs_throttled
        /\ OnlyThrottle

\* kprobe/throttle_cfs_rq of the bandwidth sampler
throttle_cfs_rq(cpu, cgroup_id, cfs_b) ==
    LET serial_nr == css_serial[cgroup_id]
        now == Now
        s1 == throttle_new_cgroup(bandwidth, cgroup_id, serial_nr, cfs_b, TRUE)
        s2 == [s1 EXCEPT !.throttled_count = array_incr(@, MAX_CGROUPS, cgroup_id)]
        s3 == IF ArrGet(s2.throttle_start, cgroup_id) # 0
              THEN s2
              ELSE [s2 EXCEPT !.throttle_start = ArrUpdate(@, MAX_CGROUPS, cgroup_id, now)]
    IN  /\ sampler = "bandwidth"
        /\ cgroup_id \notin DOMAIN cfs_throttled[cpu]
        /\ EventWithin(MaxThrottleEvents,
                       [probe |-> "throttle_cfs_rq", cpu |-> cpu, id |-> cgroup_id,
                        serial |-> serial_nr, ts |-> now])
        /\ bandwidth' = IF Tracked(cgroup_id) THEN s3 ELSE bandwidth
        /\ EpochSeen(cgroup_id, serial_nr)
        /\ CfsThrottle(cpu, cgroup_id)
        /\ OnlyThrottle

\* an unthrottle that does not compare the serial numbers
unthrottle_cfs_rq_any_serial(cpu, cgroup_id) ==
    LET serial_nr == cfs_throttled[cpu][cgroup_id].serial
        now == Now
        start_ts == ArrGet(bandwidth.throttle_start, cgroup_id)
    IN  /\ sampler = "bandwidth"
        /\ cgroup_id \in DOMAIN cfs_throttled[cpu]
        /\ EventWithin(MaxThrottleEvents,
                       [probe |-> "unthrottle_cfs_rq", cpu |-> cpu, id |-> cgroup_id,
                        serial |-> serial_nr, ts |-> now])
        /\ bandwidth' =
              IF ~Tracked(cgroup_id) \/ start_ts = 0
              THEN bandwidth
              ELSE [bandwidth EXCEPT
                      !.throttled_time = array_add(@, MAX_CGROUPS, cgroup_id,
                                                   WSub(now, start_ts)),
                      !.throttle_start = ArrUpdate(@, MAX_CGROUPS, cgroup_id, 0)]
        /\ CfsUnthrottle(cpu, cgroup_id)
        /\ UNCHANGED epoch_seen
        /\ OnlyThrottle

\* kprobe/unthrottle_cfs_rq of the bandwidth sampler
unthrottle_cfs_rq(cpu, cgroup_id) ==
    LET serial_nr == cfs_throttled[cpu][cgroup_id].serial
        now == Now
        start_ts == ArrGet(bandwidth.throttle_start, cgroup_id)
    IN  /\ sampler = "bandwidth"
        /\ cgroup_id \in DOMAIN cfs_throttled[cpu]
        /\ EventWithin(MaxThrottleEvents,
                       [probe |-> "unthrottle_cfs_rq", cpu |-> cpu, id |-> cgroup_id,
                        serial |-> serial_nr, ts |-> now])
        /\ bandwidth' =
              IF ~Tracked(cgroup_id)
                 \/ ArrGet(bandwidth.cgroup_serial_numbers, cgroup_id) # serial_nr
                 \/ start_ts = 0
              THEN bandwidth
              ELSE [bandwidth EXCEPT
                      !.throttled_time = array_add(@, MAX_CGROUPS, cgroup_id,
                                                   WSub(now, start_ts)),
                      !.throttle_start = ArrUpdate(@, MAX_CGROUPS, cgroup_id, 0)]
        /\ CfsUnthrottle(cpu, cgroup_id)
        /\ UNCHANGED epoch_seen
        /\ OnlyThrottle

\* kprobe/throttle_cfs_rq of the throttled sampler
throttled_throttle_cfs_rq(cpu, cgroup_id) ==
    LET serial_nr == css_serial[cgroup_id]
        now == Now
        s1 == throttle_new_cgroup(bandwidth, cgroup_id, serial_nr,
                                  [quota |-> 0, period |-> 0], FALSE)
        s2 == [s1 EXCEPT !.throttle_start = ArrUpdate(@, MAX_CGROUPS, cgroup_id, now),
                         !.throttled_count = array_incr(@, MAX_CGROUPS, cgroup_id)]
    IN  /\ sampler = "throttled"
        /\ cgroup_id \notin DOMAIN cfs_throttled[cpu]
        /\ EventWithin(MaxThrottleEvents,
                       [probe |-> "throttle_cfs_rq", cpu |-> cpu, id |-> cgroup_id,
                        serial |-> serial_nr, ts |-> now])
        /\ bandwidth' = IF Tracked(cgroup_id) THEN s2 ELSE bandwidth
        /\ EpochSeen(cgroup_id, serial_nr)
        /\ CfsThrottle(cpu, cgroup_id)
        /\ OnlyThrottle

\* kprobe/unthrottle_cfs_rq of the throttled sampler
throttled_unthrottle_cfs_rq(cpu, cgroup_id) ==
    LET now == Now
        start_ts == ArrGet(bandwidth.throttle_start, cgroup_id)
    IN  /\ sampler = "throttled"
        /\ cgroup_id \in DOMAIN cfs_throttled[cpu]
        /\ EventWithin(MaxThrottleEvents,
                       [probe |-> "unthrottle_cfs_rq", cpu |-> cpu, id |-> cgroup_id,
                        serial |-> cfs_throttled[cpu][cgroup_id].serial, ts |-> now])
        /\ bandwidth' =
              IF ~Tracked(cgroup_id) \/ start_ts = 0
              THEN bandwidth
              ELSE [bandwidth EXCEPT
                      !.throttled_time = array_add(@, MAX_CGROUPS, cgroup_id,
                                                   WSub(now, start_ts)),
                      !.throttle_start = ArrUpdate(@, MAX_CGROUPS, cgroup_id, 0)]
        /\ CfsUnthrottle(cpu, cgroup_id)
        /\ UNCHANGED epoch_seen
        /\ OnlyThrottle

\* user space consumes one record from a ring of the enabled sampler
throttle_consume ==
    /\ sampler \in {"bandwidth", "throttled"}
    /\ EventWithin(MaxThrottleEvents, [probe |-> "throttle_consume"])
    /\ \/ /\ RingReadable(bandwidth.cgroup_info)
          /\ bandwidth' = [bandwidth EXCEPT !.cgroup_info = RingConsume(@)]
       \/ /\ RingReadable(bandwidth.bandwidth_info)
          /\ bandwidth' = [bandwidth EXCEPT !.bandwidth_info = RingConsume(@)]
    /\ UNCHANGED <<cfs_throttled, epoch_seen>>
    /\ OnlyThrottle

(***************************************************************************)
(* TCP connect latency sampler                                             *)
(***************************************************************************)
InitConn ==
    /\ conn_start = EmptyHash
    /\ conn_latency = EmptyArr

\* a connect that stores its timestamp over a pending one
trace_connect_overwriting(sk, ts) ==
    /\ sampler = "tcp_connect_latency"
    /\ Event([probe |-> "tcp_connect", sk |-> sk, ts |-> ts])
    /\ conn_start' = hash_update(conn_start, HashSlots, sk, ts, BPF_ANY)
    /\ UNCHANGED conn_latency
    /\ OnlyConn

\* kprobe/tcp_v4_connect and kprobe/tcp_v6_connect
trace_connect(sk, ts) ==
    /\ sampler = "tcp_connect_latency"
    /\ Event([probe |-> "tcp_connect", sk |-> sk, ts |-> ts])
    /\ conn_start' = hash_update(conn_start, HashSlots, sk, ts, NO_EXIST)
    /\ UNCHANGED conn_latency
    /\ OnlyConn

\* what both TCP latency samplers do with a start they found
tcp_record(latency, tsp, now) ==
    IF tsp > now
    THEN latency
    ELSE array_incr(latency, HISTOGRAM_BUCKETS_POW_3,
                    value_to_index(U64(WSub(now, tsp)), TCP_HISTOGRAM_POWER))

\* kprobe/tcp_rcv_state_process
handle_tcp_rcv_state_process(sk, syn_sent, now) ==
    /\ sampler = "tcp_connect_latency"
    /\ Event([probe |-> "tcp_rcv_state_process", sk |-> sk, syn_sent |-> syn_sent, ts |-> now])
    /\ IF ~syn_sent \/ sk \notin DOMAIN conn_start
       THEN UNCHANGED connVars
       ELSE /\ conn_latency' = tcp_record(conn_latency, conn_start[sk], now)
            /\ conn_start' = hash_delete(conn_start, sk)
    /\ OnlyConn

\* tracepoint/tcp/tcp_destroy_sock
conn_tcp_destroy_sock(sk) ==
    /\ sampler = "tcp_connect_latency"
    /\ Event([probe |-> "tcp_destroy_sock", sk |-> sk])
    /\ conn_start' = hash_delete(conn_start, sk)
    /\ UNCHANGED conn_latency
    /\ OnlyConn

(***************************************************************************)
(* TCP packet latency sampler                                              *)
(***************************************************************************)
InitPkt ==
    /\ pkt_start = EmptyHash
    /\ pkt_latency = EmptyArr

\* raw_tp/tcp_probe
handle_tcp_probe(sk, len, doff, ts) ==
    /\ sampler = "tcp_packet_latency"
    /\ Event([probe |-> "tcp_probe", sk |-> sk, len |-> len, doff |-> doff, ts |-> ts])
    /\ pkt_start' = IF len <= doff * 4
                    THEN pkt_start
                    ELSE hash_update(pkt_start, HashSlots, sk, ts, NO_EXIST)
    /\ UNCHANGED pkt_latency
    /\ OnlyPkt

\* raw_tp/tcp_rcv_space_adjust
handle_tcp_rcv_space_adjust(sk, now) ==
    /\ sampler = "tcp_packet_latency"
    /\ Event([probe |-> "tcp_rcv_space_adjust", sk |-> sk, ts |-> now])
    /\ IF sk \notin DOMAIN pkt_start
       THEN UNCHANGED pktVars
       ELSE /\ pkt_latency' = tcp_record(pkt_latency, pkt_start[sk], now)
            /\ pkt_start' = hash_delete(pkt_start, sk)
    /\ OnlyPkt

\* raw_tp/tcp_destroy_sock
handle_tcp_destroy_sock(sk) ==
    /\ sampler = "tcp_packet_latency"
    /\ Event([probe |-> "pkt_tcp_destroy_sock", sk |-> sk])
    /\ pkt_start' = hash_delete(pkt_start, sk)
    /\ UNCHANGED pkt_latency
    /\ OnlyPkt

(***************************************************************************)
(* Inputs of the cgroup-identity specification.                            *)
(***************************************************************************)
Pids == {0, 1}
UninitValues == {0, 1, MAX_CGROUPS}
Uninit(tg) == IF tg = NoGroup THEN UninitValues ELSE {0}

InitSamplers ==
    /\ InitEnv /\ InitTlb /\ InitSc /\ InitRq
    /\ InitBlk /\ InitSl /\ InitCu /\ InitConn /\ InitPkt

\* The words of the samplers stay below 2^WordBits, where every build
\* shifts alike; the indexer's own specification draws the build.
InitLarger(initial) ==
    /\ larger_array = ArrPut(EmptyArr, 0, initial)
    /\ larger_ctx = [c \in Cpus |-> LargerIdle]
    /\ larger_log = [initial |-> initial, offered |-> <<>>, overlapped |-> FALSE]

InitAux ==
    /\ build = "alu64"
    /\ indexer = HistOff
    /\ InitLarger(0)
    /\ InitUsage
    /\ InitMore

InitMaps == InitSamplers /\ InitAux

Init ==
    /\ sampler \in {"tlb_flush", "syscall_counts", "runqueue"}
    /\ InitMaps

Next ==
    \/ \E g \in CgroupIds : CgroupReuse(g)
    \/ Consume
    \/ \E c \in Cpus, r \in TlbReasonInputs, tg \in TaskGroups : tlb_flush(c, r, tg)
    \/ \E c \in Cpus, id \in SyscallIds, tg \in TaskGroups : sys_enter(c, id, tg)
    \/ \E p \in Pids : handle__sched_wakeup(p, 1)
    \/ \E prev \in Pids, next \in Pids, running \in BOOLEAN,
          prev_tg \in TaskGroups, next_tg \in TaskGroups :
          \E u \in Uninit(prev_tg) :
             handle__sched_switch(0, 2, prev, running, prev_tg, next, next_tg, u)

Spec == Init /\ [][Next]_vars

(***************************************************************************)
(* The latency-pairing specification: the samplers that pair a start with  *)
(* a completion, with timestamps drawn freely from Times.                  *)
(* bpf_ktime_get_ns() is read at different points of different probes on   *)
(* different CPUs, so a completion may hold a timestamp that is smaller    *)
(* than the start it finds.                                                *)
(***************************************************************************)
Keys == 1 .. (HashSlots + 1)    \* request and socket pointers
Tids == {1}
BlkCmdFlags == {0, 256 + 1, 5}  \* read, write with a flag bit set, another op
TaskGroupOf(pid) == IF pid = 0 THEN 0 ELSE 1

InitLatency ==
    /\ sampler \in {"blockio_latency", "syscall_latency", "cpu_usage",
                    "tcp_connect_latency", "tcp_packet_latency", "runqueue"}
    /\ InitMaps

NextLatency ==
    \/ \E rq \in Keys, issue \in BOOLEAN, ts \in Times : trace_rq_start(rq, issue, ts)
    \/ \E rq \in Keys, f \in BlkCmdFlags, ts \in Times : handle_block_rq_complete(rq, f, ts)
    \/ \E tid \in Tids, ts \in Times : sl_sys_enter(tid, ts)
    \/ \E tid \in Tids, id \in SyscallIds, ts \in Times : sl_sys_exit(0, tid, id, ts)
    \/ \E c \in Cpus, ts \in Times : softirq_enter(c, NET_RX, ts)
    \/ \E c \in Cpus, ts \in Times : softirq_exit(c, NET_RX, ts)
    \/ \E sk \in Keys, ts \in Times : trace_connect(sk, ts)
    \/ \E sk \in Keys, syn_sent \in BOOLEAN, ts \in Times :
          handle_tcp_rcv_state_process(sk, syn_sent, ts)
    \/ \E sk \in Keys : conn_tcp_destroy_sock(sk)
    \/ \E sk \in Keys, len \in {20, 21}, ts \in Times : handle_tcp_probe(sk, len, 5, ts)
    \/ \E sk \in Keys, ts \in Times : handle_tcp_rcv_space_adjust(sk, ts)
    \/ \E sk \in Keys : handle_tcp_destroy_sock(sk)
    \/ \E p \in Pids, ts \in Times : handle__sched_wakeup(p, ts)
    \/ \E prev \in Pids, next \in Pids, running \in BOOLEAN, ts \in Times :
          handle__sched_switch(0, ts, prev, running, TaskGroupOf(prev),
                               next, TaskGroupOf(next), 0)

SpecLatency == InitLatency /\ [][NextLatency]_vars

(***************************************************************************)
(* The throttling specification: the probes of the bandwidth and of the    *)
(* throttled sampler, one at a time, on the cfs_rqs of every CPU, with     *)
(* cgroup ids that go to new groups.                                       *)
(***************************************************************************)
InitThrottle ==
    /\ sampler \in {"bandwidth", "throttled"}
    /\ InitMaps

NextThrottle ==
    \/ \E g \in CgroupIds : CgroupReuse(g)
    \/ throttle_consume
    \/ \E g \in CgroupIds, b \in CfsBandwidths : tg_set_cfs_bandwidth(g, b)
    \/ \E c \in Cpus, g \in CgroupIds, b \in CfsBandwidths : throttle_cfs_rq(c, g, b)
    \/ \E c \in Cpus, g \in CgroupIds : unthrottle_cfs_rq(c, g)
    \/ \E c \in Cpus, g \in CgroupIds : throttled_throttle_cfs_rq(c, g)
    \/ \E c \in Cpus, g \in CgroupIds : throttled_unthrottle_cfs_rq(c, g)

SpecThrottle == InitThrottle /\ [][NextThrottle]_vars

(***************************************************************************)
(* The syscall counts specification: sys_enter of the syscall counts       *)
(* sampler alone, with every kind of syscall id.                           *)
(***************************************************************************)
InitCounts ==
    /\ sampler = "syscall_counts"
    /\ InitMaps

NextCounts ==
    /\ nevents < MaxSyscalls
    /\ \E c \in Cpus, id \in CountedIds, tg \in TaskGroups : sys_enter(c, id, tg)

SpecCounts == InitCounts /\ [][NextCounts]_vars

(***************************************************************************)
(* The runqueue specification: wakeups and switches of the runqueue        *)
(* sampler alone, on every CPU, with timestamps drawn freely from Times.   *)
(***************************************************************************)
InitRunqueue ==
    /\ sampler = "runqueue"
    /\ InitMaps

NextRunqueue ==
    \/ \E p \in Pids, ts \in Times :
          nevents < MaxSwitches /\ handle__sched_wakeup(p, ts)
    \/ \E c \in Cpus, prev \in Pids, next \in Pids, running \in BOOLEAN, ts \in Times :
          /\ nevents < MaxSwitches
          /\ handle__sched_switch(c, ts, prev, running, TaskGroupOf(prev),
                                  next, TaskGroupOf(next), 0)

SpecRunqueue == InitRunqueue /\ [][NextRunqueue]_vars

(***************************************************************************)
(* The histogram indexer's specification: two 64-bit values v1 <= v2 and a *)
(* grouping power are drawn, clz and value_to_index are applied to them,   *)
(* and v1 is recorded in an empty histogram of that grouping power.  v2 is *)
(* one of the PairSpan values that follow v1 among the values drawn; an    *)
(* order that holds between neighbours holds between all of them.          *)
(***************************************************************************)
\* The values drawn, in increasing order: 0, and for every position p of the
\* leading one the least value 2^p, the middle value 2^p + 2^(p-1) and the
\* greatest value 2^(p+1) - 1.
HistValueAt(n) ==
    IF n = 0 THEN {}
    ELSE LET p == (n - 1) \div 3
             k == (n - 1) % 3
         IN  CASE k = 0 -> {p}
               [] k = 1 -> {p} \cup ({p - 1} \cap U64Positions)
               [] k = 2 -> 0 .. p
HistValueCount == 3 * 64 + 1
GroupingPowers == 0 .. 7

\* the declared bucket count of the histograms of grouping power m
HistogramBuckets(m) ==
    CASE m = 3 -> HISTOGRAM_BUCKETS_POW_3
      [] m = 4 -> HISTOGRAM_BUCKETS_POW_4
      [] m = 5 -> HISTOGRAM_BUCKETS_POW_5
      [] m = 6 -> HISTOGRAM_BUCKETS_POW_6
      [] m = 7 -> HISTOGRAM_BUCKETS_POW_7

OnlyHist == UNCHANGED <<envVars, nevents, last, tlbVars, scVars, rqVars,
                        blkVars, slVars, cuVars, connVars, pktVars, build, largerVars,
                        usageVars, moreVars>>

index_values ==
    /\ indexer.pc = "input"
    /\ indexer' = [indexer EXCEPT
                   !.pc = "indexed",
                   !.idx1 = value_to_index(indexer.v1, indexer.grouping_power),
                   !.idx2 = value_to_index(indexer.v2, indexer.grouping_power),
                   !.lz = clz(indexer.v1)]
    /\ OnlyHist

record_value ==
    /\ indexer.pc = "indexed"
    /\ indexer.grouping_power >= 3
    /\ indexer' = [indexer EXCEPT
                   !.pc = "recorded",
                   !.buckets = histogram_incr(@, HistogramBuckets(indexer.grouping_power),
                                              indexer.grouping_power, indexer.v1)]
    /\ OnlyHist

InitHist ==
    /\ sampler = "histogram"
    /\ InitSamplers
    /\ build \in Builds
    /\ InitLarger(0)
    /\ InitUsage
    /\ InitMore
    /\ \E n1 \in 0 .. (HistValueCount - 1), d \in 0 .. PairSpan, m \in GroupingPowers :
          /\ n1 + d < HistValueCount
          /\ indexer = [HistOff EXCEPT !.pc = "input", !.grouping_power = m,
                                       !.v1 = HistValueAt(n1),
                                       !.v2 = HistValueAt(n1 + d)]

NextHist == index_values \/ record_value

SpecHist == InitHist /\ [][NextHist]_vars

(***************************************************************************)
(* The interleaving specification: the probes of the tlb_flush and syscall *)
(* counts samplers run on every CPU at once, one map operation per step.   *)
(* ctx[cpu] holds the position and the locals of the probe running on cpu. *)
(***************************************************************************)
Running(pc, reason, group, tg) ==
    [IdleCtx EXCEPT !.pc = pc, !.reason = reason, !.group = group,
                    !.cgroup_id = TaskCgroupId(tg), !.serial_nr = TaskSerial(tg),
                    !.level = TaskLevel(tg)]

\* move the probe on cpu to pc; a probe that returns leaves nothing behind
Goto(cpu, pc) ==
    ctx' = [ctx EXCEPT ![cpu] = IF pc = "idle" THEN IdleCtx ELSE [@ EXCEPT !.pc = pc]]

\* a probe is entered: it counts against the event budget
Entry == nevents < MaxEvents /\ nevents' = nevents + 1 /\ UNCHANGED last

\* what a step of a probe leaves alone besides its own sampler's maps
StepFrame == UNCHANGED <<sampler, css_serial, nevents, last, rqVars,
                         blkVars, slVars, cuVars, connVars, pktVars, auxVars>>

EntryFrame == UNCHANGED <<sampler, css_serial, rqVars,
                          blkVars, slVars, cuVars, connVars, pktVars, auxVars>>

\* tlb_flush up to the range check on the cgroup id
tlb_flush_entry(cpu, reason, tg) ==
    LET idx == reason + TLB_COUNTER_GROUP_WIDTH * cpu
        cgroup_id == TaskCgroupId(tg)
        tracked == tg # NoGroup /\ cgroup_id # 0 /\ cgroup_id < MAX_CGROUPS
    IN  /\ sampler = "tlb_flush"
        /\ ctx[cpu].pc = "idle"
        /\ Entry
        /\ tlb_events' = array_incr(tlb_events, MAX_CPUS * TLB_COUNTER_GROUP_WIDTH, idx)
        /\ ctx' = [ctx EXCEPT ![cpu] =
                      IF tracked THEN Running("check", reason, 0, tg) ELSE IdleCtx]
        /\ UNCHANGED <<tlb_cgroup_info, tlb_cgroup_serial_numbers, tlb_cgroup, scVars>>
        /\ EntryFrame

\* the serial number lookup and comparison
tlb_flush_check(cpu) ==
    /\ sampler = "tlb_flush"
    /\ ctx[cpu].pc = "check"
    /\ Goto(cpu, IF ArrGet(tlb_cgroup_serial_numbers, ctx[cpu].cgroup_id)
                       # ctx[cpu].serial_nr
                 THEN "zero" ELSE "lookup")
    /\ UNCHANGED <<tlbVars, scVars>>
    /\ StepFrame

\* zero the counters of the cgroup id
tlb_flush_zero(cpu) ==
    /\ sampler = "tlb_flush"
    /\ ctx[cpu].pc = "zero"
    /\ tlb_cgroup' = [r \in TlbReasons |->
                         ArrUpdate(tlb_cgroup[r], MAX_CGROUPS, ctx[cpu].cgroup_id, 0)]
    /\ Goto(cpu, "emit")
    /\ UNCHANGED <<tlb_events, tlb_cgroup_info, tlb_cgroup_serial_numbers, scVars>>
    /\ StepFrame

\* push the cgroup info into the ring buffer
tlb_flush_emit(cpu) ==
    /\ sampler = "tlb_flush"
    /\ ctx[cpu].pc = "emit"
    /\ tlb_cgroup_info' =
          bpf_ringbuf_output(tlb_cgroup_info,
              CgroupInfo(ctx[cpu].cgroup_id, ctx[cpu].level, ctx[cpu].serial_nr))
    /\ Goto(cpu, "store")
    /\ UNCHANGED <<tlb_events, tlb_cgroup_serial_numbers, tlb_cgroup, scVars>>
    /\ StepFrame

\* update the serial number in the serial table
tlb_flush_store(cpu) ==
    /\ sampler = "tlb_flush"
    /\ ctx[cpu].pc = "store"
    /\ tlb_cgroup_serial_numbers' =
          ArrUpdate(tlb_cgroup_serial_numbers, MAX_CGROUPS,
                    ctx[cpu].cgroup_id, ctx[cpu].serial_nr)
    /\ Goto(cpu, "lookup")
    /\ UNCHANGED <<tlb_events, tlb_cgroup_info, tlb_cgroup, scVars>>
    /\ StepFrame

\* array_incr on the per-cgroup counter of the reason: the lookup
tlb_flush_lookup(cpu) ==
    LET elem == bpf_map_lookup_elem(MAX_CGROUPS, ctx[cpu].cgroup_id)
    IN  /\ sampler = "tlb_flush"
        /\ ctx[cpu].pc = "lookup"
        /\ ctx' = [ctx EXCEPT ![cpu] =
                      IF elem # NullElem
                      THEN [@ EXCEPT !.pc = "add", !.elem = elem,
                                     !.seen = ArrGet(tlb_cgroup[ctx[cpu].reason], elem)]
                      ELSE IdleCtx]
        /\ UNCHANGED <<tlbVars, scVars>>
        /\ StepFrame

\* array_incr on the per-cgroup counter of the reason: the atomic add
tlb_flush_add(cpu) ==
    /\ sampler = "tlb_flush"
    /\ ctx[cpu].pc = "add"
    /\ tlb_cgroup' = [tlb_cgroup EXCEPT ![ctx[cpu].reason] =
                         atomic_fetch_add(@, ctx[cpu].elem, ctx[cpu].seen, 1)]
    /\ Goto(cpu, "idle")
    /\ UNCHANGED <<tlb_events, tlb_cgroup_info, tlb_cgroup_serial_numbers, scVars>>
    /\ StepFrame

\* sys_enter of the syscall counts sampler up to the call of handle_new_cgroup
sys_enter_entry(cpu, id, tg) ==
    LET group == sc_group(id)
        idx == SC_COUNTER_GROUP_WIDTH * cpu + group
        in_range == TaskCgroupId(tg) < MAX_CGROUPS
    IN  /\ sampler = "syscall_counts"
        /\ ctx[cpu].pc = "idle"
        /\ Entry
        /\ IF id < 0
           THEN UNCHANGED <<sc_counters, ctx>>
           ELSE /\ sc_counters' = array_incr(sc_counters,
                                     MAX_CPUS * SC_COUNTER_GROUP_WIDTH, idx)
                /\ ctx' = [ctx EXCEPT ![cpu] =
                              IF in_range THEN Running("check", 0, group, tg) ELSE IdleCtx]
        /\ UNCHANGED <<sc_cgroup_info, sc_cgroup_serial_numbers, sc_cgroup, tlbVars>>
        /\ EntryFrame

\* handle_new_cgroup: the serial number lookup and comparison
handle_new_cgroup_check(cpu) ==
    /\ sampler = "syscall_counts"
    /\ ctx[cpu].pc = "check"
    /\ Goto(cpu, IF ArrGet(sc_cgroup_serial_numbers, ctx[cpu].cgroup_id)
                       = ctx[cpu].serial_nr
                 THEN "lookup" ELSE "emit")
    /\ UNCHANGED <<tlbVars, scVars>>
    /\ StepFrame

\* handle_new_cgroup: push the cgroup info into the ring buffer
handle_new_cgroup_emit(cpu) ==
    /\ sampler = "syscall_counts"
    /\ ctx[cpu].pc = "emit"
    /\ sc_cgroup_info' =
          bpf_ringbuf_output(sc_cgroup_info,
              CgroupInfo(ctx[cpu].cgroup_id, ctx[cpu].level, ctx[cpu].serial_nr))
    /\ Goto(cpu, "store")
    /\ UNCHANGED <<sc_counters, sc_cgroup_serial_numbers, sc_cgroup, tlbVars>>
    /\ StepFrame

\* handle_new_cgroup: update the serial number and return 0
handle_new_cgroup_store(cpu) ==
    /\ sampler = "syscall_counts"
    /\ ctx[cpu].pc = "store"
    /\ sc_cgroup_serial_numbers' =
          ArrUpdate(sc_cgroup_serial_numbers, MAX_CGROUPS,
                    ctx[cpu].cgroup_id, ctx[cpu].serial_nr)
    /\ Goto(cpu, "zero")
    /\ UNCHANGED <<sc_counters, sc_cgroup_info, sc_cgroup, tlbVars>>
    /\ StepFrame

\* sys_enter: handle_new_cgroup returned 0, zero all counters of the cgroup id
sys_enter_zero(cpu) ==
    /\ sampler = "syscall_counts"
    /\ ctx[cpu].pc = "zero"
    /\ sc_cgroup' = [f \in SyscallGroups |->
                        ArrUpdate(sc_cgroup[f], MAX_CGROUPS, ctx[cpu].cgroup_id, 0)]
    /\ Goto(cpu, "lookup")
    /\ UNCHANGED <<sc_counters, sc_cgroup_info, sc_cgroup_serial_numbers, tlbVars>>
    /\ StepFrame

\* array_incr on the per-cgroup counter of the group: the lookup
sys_enter_lookup(cpu) ==
    LET elem == bpf_map_lookup_elem(MAX_CGROUPS, ctx[cpu].cgroup_id)
    IN  /\ sampler = "syscall_counts"
        /\ ctx[cpu].pc = "lookup"
        /\ ctx' = [ctx EXCEPT ![cpu] =
                      IF elem # NullElem
                      THEN [@ EXCEPT !.pc = "add", !.elem = elem,
                                     !.seen = ArrGet(sc_cgroup[ctx[cpu].group], elem)]
                      ELSE IdleCtx]
        /\ UNCHANGED <<tlbVars, scVars>>
        /\ StepFrame

\* array_incr on the per-cgroup counter of the group: the atomic add
sys_enter_add(cpu) ==
    /\ sampler = "syscall_counts"
    /\ ctx[cpu].pc = "add"
    /\ sc_cgroup' = [sc_cgroup EXCEPT ![ctx[cpu].group] =
                        atomic_fetch_add(@, ctx[cpu].elem, ctx[cpu].seen, 1)]
    /\ Goto(cpu, "idle")
    /\ UNCHANGED <<sc_counters, sc_cgroup_info, sc_cgroup_serial_numbers, tlbVars>>
    /\ StepFrame

\* the tasks that run on the CPUs: one in the root cgroup, one in cgroup 1
ConcTaskGroups == {0, 1}

InitConc ==
    /\ sampler \in {"tlb_flush", "syscall_counts"}
    /\ InitMaps

NextConc ==
    \/ \E g \in CgroupIds : CgroupReuse(g)
    \/ Consume
    \/ \E c \in Cpus, tg \in ConcTaskGroups : tlb_flush_entry(c, REASON_TASK_SWITCH, tg)
    \/ \E c \in Cpus : tlb_flush_check(c)
    \/ \E c \in Cpus : tlb_flush_zero(c)
    \/ \E c \in Cpus : tlb_flush_emit(c)
    \/ \E c \in Cpus : tlb_flush_store(c)
    \/ \E c \in Cpus : tlb_flush_lookup(c)
    \/ \E c \in Cpus : tlb_flush_add(c)
    \/ \E c \in Cpus, tg \in ConcTaskGroups : sys_enter_entry(c, 0, tg)
    \/ \E c \in Cpus : handle_new_cgroup_check(c)
    \/ \E c \in Cpus : handle_new_cgroup_emit(c)
    \/ \E c \in Cpus : handle_new_cgroup_store(c)
    \/ \E c \in Cpus : sys_enter_zero(c)
    \/ \E c \in Cpus : sys_enter_lookup(c)
    \/ \E c \in Cpus : sys_enter_add(c)

SpecConc == InitConc /\ [][NextConc]_vars

(***************************************************************************)
(* The task accounting of the cpu usage sampler, one probe at a time.      *)
(***************************************************************************)
InitUsageSampler ==
    /\ sampler = "cpu_usage"
    /\ InitMaps

NextUsage ==
    \/ \E c \in {0}, prev \in UsagePids, next \in UsagePids :
          \E prev_tg \in UsageGroups(prev), next_tg \in UsageGroups(next) :
             cu_handle__sched_switch(c, prev, prev_tg, next, next_tg)
    \/ \E c \in {0}, pid \in UsagePids \ {0} : \E tg \in UsageGroups(pid) :
          cu_sys_enter(c, pid, tg)
    \/ \E c \in {0}, pid \in UsagePids \ {0} : \E tg \in UsageGroups(pid) :
          cu_sys_exit(c, pid, tg)
    \/ \E pid \in UsagePids \ {0} : handle__sched_process_exit(pid)
    \/ \E pid \in UsagePids : PidReuse(pid)
    \/ \E name \in TaskRings : cu_consume(name)

SpecUsage == InitUsageSampler /\ [][NextUsage]_vars

(***************************************************************************)
(* The perf and frequency samplers, one probe at a time.  The counters of  *)
(* one sampler are read together; the kernel may have reset them.          *)
(***************************************************************************)
PerfGroups == {0, 1, MAX_CGROUPS}

Readings == 0 .. MaxTime

PerfReadings == {[k \in PerfCounters |-> v] : v \in Readings}
                \cup {[k \in PerfCounters |-> IF k \in {"cycles", "aperf"} THEN v ELSE 0] :
                         v \in Readings}

InitPerfSamplers ==
    /\ sampler \in {"perf", "frequency"}
    /\ InitMaps

NextPerf ==
    \/ \E c \in Cpus, tg \in PerfGroups, reading \in PerfReadings :
          perf_handle__sched_switch(c, tg, reading)
    \/ \E g \in CgroupIds : CgroupReuse(g)
    \/ perf_consume

SpecPerf == InitPerfSamplers /\ [][NextPerf]_vars

(***************************************************************************)
(* The block I/O requests sampler, one completion at a time.               *)
(***************************************************************************)
\* read, write with a flag bit set, flush, discard, another op
RequestsCmdFlags == {0, 256 + 1, 2, 3, 4}

\* no bytes, and a size of the logarithmic region
NrBytes == {0, 17}

InitRequestsSampler ==
    /\ sampler = "blockio_requests"
    /\ InitMaps

NextRequests ==
    \E c \in Cpus, cmd_flags \in RequestsCmdFlags, nr_bytes \in NrBytes :
       block_rq_complete(c, cmd_flags, nr_bytes)

SpecRequests == InitRequestsSampler /\ [][NextRequests]_vars

(***************************************************************************)
(* array_set_if_larger under interleaving: every CPU may be inside a call  *)
(* on the array.  A call reads the slot (helpers.h:28) and, when the value *)
(* it offers is larger, writes the slot in a later step (helpers.h:29).    *)
(* larger_log keeps the initial value of slot 0, the values the calls have *)
(* offered to slot 0, and whether a call began while another was running.  *)
(***************************************************************************)
LargerIdxs == {0, MAX_CGROUPS}
LargerInitials == {0, 1}

OnlyLarger == UNCHANGED <<envVars, last, tlbVars, scVars, rqVars,
                          blkVars, slVars, cuVars, connVars, pktVars, histVars,
                          usageVars, moreVars>>

array_set_if_larger_load(cpu, idx, value) ==
    LET elem == bpf_map_lookup_elem(MAX_CGROUPS, idx)
    IN  /\ sampler = "set_if_larger"
        /\ larger_ctx[cpu].pc = "idle"
        /\ nevents < MaxEvents
        /\ nevents' = nevents + 1
        /\ larger_ctx' = IF elem # NullElem /\ value > ArrGet(larger_array, elem)
                         THEN [larger_ctx EXCEPT ![cpu] =
                                  [pc |-> "store", value |-> value, elem |-> elem]]
                         ELSE larger_ctx
        /\ larger_log' = [larger_log EXCEPT
                             !.offered = IF elem = 0 THEN Append(@, value) ELSE @,
                             !.overlapped = @ \/ \E c \in Cpus : larger_ctx[c].pc # "idle"]
        /\ UNCHANGED larger_array
        /\ OnlyLarger

array_set_if_larger_store(cpu) ==
    /\ larger_ctx[cpu].pc = "store"
    /\ larger_array' = ArrPut(larger_array, larger_ctx[cpu].elem, larger_ctx[cpu].value)
    /\ larger_ctx' = [larger_ctx EXCEPT ![cpu] = LargerIdle]
    /\ UNCHANGED <<nevents, larger_log>>
    /\ OnlyLarger

InitSetIfLarger ==
    /\ sampler = "set_if_larger"
    /\ InitSamplers
    /\ build = "alu64"
    /\ indexer = HistOff
    /\ InitUsage
    /\ InitMore
    /\ \E initial \in LargerInitials : InitLarger(initial)

NextSetIfLarger ==
    \/ \E c \in Cpus, idx \in LargerIdxs, v \in Times : array_set_if_larger_load(c, idx, v)
    \/ \E c \in Cpus : array_set_if_larger_store(c)

SpecSetIfLarger == InitSetIfLarger /\ [][NextSetIfLarger]_vars

(***************************************************************************)
(* Views of the enabled sampler's cgroup identity state.                   *)
(***************************************************************************)
CgSerials ==
    CASE sampler = "tlb_flush" -> tlb_cgroup_serial_numbers
      [] sampler = "syscall_counts" -> sc_cgroup_serial_numbers
      [] sampler = "runqueue" -> rq_cgroup_serial_numbers
      [] OTHER -> EmptyArr

CgCounters ==
    CASE sampler = "tlb_flush" -> tlb_cgroup
      [] sampler = "syscall_counts" -> sc_cgroup
      [] sampler = "runqueue" -> rq_cgroup
      [] OTHER -> [k \in {} |-> EmptyArr]

InRangeIds == {g \in CgroupIds : g < MAX_CGROUPS}

HasRecord(ring, id, serial_nr) ==
    \E i \in 1 .. Len(ring.data) :
        ring.data[i].id = id /\ ring.data[i].epoch = serial_nr

RecCount(ring, id, serial_nr) ==
    Cardinality({i \in 1 .. Len(ring.data) :
                    ring.data[i].id = id /\ ring.data[i].epoch = serial_nr})

\* the task groups the probe `l` read a cgroup id from
Observed(l) ==
    CASE l.probe = "tlb_flush" -> {l.tg}
      [] l.probe = "sys_enter" -> IF l.id >= 0 THEN {l.tg} ELSE {}
      [] l.probe = "sched_switch" -> {l.prev_tg, l.next_tg}
      [] OTHER -> {}

\* the observations the enabled sampler passes to its serial-number check
Checked(tg) ==
    IF sampler = "syscall_counts"
    THEN TaskCgroupId(tg) < MAX_CGROUPS
    ELSE tg # NoGroup /\ tg # 0 /\ tg < MAX_CGROUPS

(***************************************************************************)
(* C1: whatever the other CPUs did to a slot between a CPU's lookup and    *)
(* its add, the add takes the slot from its current value v to             *)
(* v + delta (modulo 2^64) and changes no other slot, so that no update of *)
(* array_add / array_incr is lost and the adds of distinct CPUs sum up.    *)
(***************************************************************************)
CtxCounter(c) ==
    IF sampler = "tlb_flush" THEN ctx[c].reason ELSE ctx[c].group

C1_Step ==
    \A c \in Cpus :
        (ctx[c].pc = "add" /\ ctx'[c].pc # "add") =>
            LET k == CtxCounter(c)
                slot == ctx[c].elem
            IN  /\ CgCounters'[k] =
                      ArrPut(CgCounters[k], slot, WAdd(ArrGet(CgCounters[k], slot), 1))
                /\ \A j \in (DOMAIN CgCounters) \ {k} : CgCounters'[j] = CgCounters[j]

C1_NoLostUpdate == [][C1_Step]_vars

\* a CPU looked a slot up while it held 0, and the add of another CPU has
\* been applied to that slot before the first CPU's own add
W_C1 ==
    /\ sampler = "tlb_flush"
    /\ \E c \in Cpus :
          /\ ctx[c].pc = "add"
          /\ ctx[c].seen = 0
          /\ ArrGet(tlb_cgroup[ctx[c].reason], ctx[c].elem) = 1

(***************************************************************************)
(* C2: for every cgroup id g, id 0 and tasks without a task group          *)
(* included, a non-zero per-cgroup counter slot g implies that an identity *)
(* record for g at g's current serial number is in the sampler's ring.     *)
(* The code violates it: the runqueue sampler counts into slot 0 (and into *)
(* whatever an unassigned cgroup_id holds) without ever announcing it.     *)
(***************************************************************************)
C2_NonZeroSlotHasIdentity ==
    \A g \in InRangeIds :
        (\E k \in DOMAIN CgCounters : ArrGet(CgCounters[k], g) # 0)
            => HasRecord(CgRing, g, css_serial[g])

(***************************************************************************)
(* C3: however the probes of different CPUs interleave, no (id, serial)    *)
(* epoch is written to the cgroup ring buffer more than once.  The code    *)
(* checks the serial and stores it in separate steps, so that two CPUs     *)
(* that both find the old serial both write the record.                    *)
(***************************************************************************)
C3_OneRecordPerEpoch ==
    \A g \in InRangeIds : \A s \in 0 .. MaxSerial :
        RecCount(CgRing, g, s) <= 1

(***************************************************************************)
(* C4: when a probe that detected a new epoch emits the identity record or *)
(* stores the serial, every per-cgroup counter the sampler owns for that   *)
(* id has been zeroed.  The syscall counts sampler emits and stores inside *)
(* handle_new_cgroup and zeroes the counters after it has returned.        *)
(***************************************************************************)
C4_Step ==
    \A c \in Cpus :
        (ctx[c].pc \in {"emit", "store"} /\ ctx'[c].pc # ctx[c].pc) =>
            \A k \in DOMAIN CgCounters :
                ArrGet(CgCounters[k], ctx[c].cgroup_id) = 0

C4_ZeroBeforeAnnounce == [][C4_Step]_vars

(***************************************************************************)
(* C5 as stated: an observation whose (id, serial) equals the stored       *)
(* serial emits nothing, zeroes nothing and leaves the serial table alone; *)
(* an observation of a new (id, serial) publishes exactly one record and   *)
(* stores the serial, so two successive events publish exactly one record. *)
(***************************************************************************)
C5_Step(published(_)) ==
    \A tg \in Observed(last') :
        Checked(tg) =>
            LET id == TaskCgroupId(tg)
                serial_nr == TaskSerial(tg)
            IN  IF ArrGet(CgSerials, id) = serial_nr
                THEN /\ CgRing' = CgRing
                     /\ CgSerials' = CgSerials
                     /\ \A k \in DOMAIN CgCounters :
                            ArrGet(CgCounters'[k], id) >= ArrGet(CgCounters[k], id)
                ELSE /\ ArrGet(CgSerials', id) = serial_nr
                     /\ RecCount(CgRing', id, serial_nr)
                           = RecCount(CgRing, id, serial_nr) + published(CgRing)

ExactlyOne(ring) == 1

OneIfRoom(ring) == IF RingFull(ring) THEN 0 ELSE 1

C6_AnnouncedSerialHasRecord ==
    \A g \in InRangeIds :
        LET serial_nr == ArrGet(CgSerials, g)
        IN  serial_nr # 0 => HasRecord(CgRing, g, serial_nr)

(***************************************************************************)
(* C7: an event whose cgroup id is MAX_CGROUPS or more emits no identity   *)
(* record and leaves the serial table and every per-cgroup counter as they *)
(* were, handle_new_cgroup returns -1 for it, and the event's per-CPU      *)
(* counter is still incremented.                                           *)
(***************************************************************************)
C7_CgroupStateUnchanged ==
    /\ CgRing' = CgRing
    /\ CgSerials' = CgSerials
    /\ CgCounters' = CgCounters

C7_Step ==
    /\ (last'.probe = "tlb_flush" /\ last'.tg >= MAX_CGROUPS) =>
          LET idx == last'.reason + TLB_COUNTER_GROUP_WIDTH * last'.cpu
          IN  /\ C7_CgroupStateUnchanged
              /\ tlb_events' = ArrPut(tlb_events, idx, ArrGet(tlb_events, idx) + 1)
    /\ (last'.probe = "sys_enter" /\ last'.id >= 0 /\ last'.tg >= MAX_CGROUPS) =>
          LET idx == SC_COUNTER_GROUP_WIDTH * last'.cpu + sc_group(last'.id)
          IN  /\ C7_CgroupStateUnchanged
              /\ handle_new_cgroup(last'.tg, sc_cgroup_serial_numbers,
                                   sc_cgroup_info).ret = -1
              /\ sc_counters' = ArrPut(sc_counters, idx, ArrGet(sc_counters, idx) + 1)
    /\ (last'.probe = "sched_switch" /\ last'.prev_tg >= MAX_CGROUPS
           /\ last'.next_tg >= MAX_CGROUPS) =>
          LET idx == RQ_COUNTER_GROUP_WIDTH * last'.cpu + IVCSW
          IN  /\ C7_CgroupStateUnchanged
              /\ last'.prev_running =>
                    ArrGet(rq_counters', idx) = ArrGet(rq_counters, idx) + 1

C7_OutOfRangeIdDropped == [][C7_Step]_vars

W_C7 ==
    /\ last.probe = "sys_enter"
    /\ last.id >= 0
    /\ last.tg >= MAX_CGROUPS
    /\ ArrGet(sc_counters, SC_COUNTER_GROUP_WIDTH * last.cpu + sc_group(last.id)) = 1
    /\ sc_cgroup_info = EmptyRing

(***************************************************************************)
(* Samples held by a histogram.                                            *)
(***************************************************************************)
RECURSIVE SumOver(_, _)
SumOver(a, D) ==
    IF D = {} THEN 0
    ELSE LET i == CHOOSE j \in D : TRUE IN a[i] + SumOver(a, D \ {i})

Samples(a) == SumOver(a, DOMAIN a)

BlkSamples == Samples(blk_hist.read) + Samples(blk_hist.write)
                + Samples(blk_hist.flush) + Samples(blk_hist.discard)

(***************************************************************************)
(* C8: in the block request, runqueue wait, softirq, syscall and TCP       *)
(* connect pairings a completion records a latency sample only if a start  *)
(* is pending for its key, and it consumes that start; a completion that   *)
(* finds no pending start changes neither the latency histograms nor the   *)
(* start table, and nothing but a completion records a sample.             *)
(***************************************************************************)
C8_Blk ==
    /\ BlkSamples' \in {BlkSamples, BlkSamples + 1}
    /\ blk_hist' # blk_hist =>
          /\ last'.probe = "block_rq_complete"
          /\ last'.rq \in DOMAIN blk_start
          /\ last'.rq \notin DOMAIN blk_start'
    /\ (last'.probe = "block_rq_complete" /\ last'.rq \notin DOMAIN blk_start) =>
          UNCHANGED blkVars

C8_Rq ==
    /\ Samples(rq_hist'.runqlat) \in {Samples(rq_hist.runqlat), Samples(rq_hist.runqlat) + 1}
    /\ rq_hist'.runqlat # rq_hist.runqlat =>
          /\ last'.probe = "sched_switch"
          /\ ArrGet(rq_at.enqueued, last'.next) # 0
          /\ ArrGet(rq_at'.enqueued, last'.next) = 0
    /\ (last'.probe = "sched_switch" /\ ArrGet(rq_at.enqueued, last'.next) = 0) =>
          /\ rq_hist'.runqlat = rq_hist.runqlat
          /\ rq_hist'.offcpu = rq_hist.offcpu
          /\ ArrGet(rq_at'.enqueued, last'.next) = 0
          /\ ArrGet(rq_counters', RQ_COUNTER_GROUP_WIDTH * last'.cpu + RUNQ_WAIT)
                = ArrGet(rq_counters, RQ_COUNTER_GROUP_WIDTH * last'.cpu + RUNQ_WAIT)

C8_Softirq ==
    /\ (cu_softirq_time' # cu_softirq_time \/ cu_cpu_usage' # cu_cpu_usage) =>
          /\ last'.probe = "softirq_exit"
          /\ ArrGet(cu_softirq_start, last'.cpu) # 0
          /\ ArrGet(cu_softirq_start', last'.cpu) = 0
    /\ (last'.probe = "softirq_exit" /\ ArrGet(cu_softirq_start, last'.cpu) = 0) =>
          UNCHANGED cuVars

C8_Syscall ==
    /\ Samples(sl_hist'[0]) \in {Samples(sl_hist[0]), Samples(sl_hist[0]) + 1}
    /\ sl_hist' # sl_hist =>
          /\ last'.probe = "sl_sys_exit"
          /\ ArrGet(sl_start, last'.tid) # 0
          /\ ArrGet(sl_start', last'.tid) = 0
    /\ (last'.probe = "sl_sys_exit" /\ ArrGet(sl_start, last'.tid) = 0) =>
          /\ sl_hist' = sl_hist
          /\ sl_start' = sl_start

C8_Connect ==
    /\ Samples(conn_latency') \in {Samples(conn_latency), Samples(conn_latency) + 1}
    /\ conn_latency' # conn_latency =>
          /\ last'.probe = "tcp_rcv_state_process"
          /\ last'.sk \in DOMAIN conn_start
          /\ last'.sk \notin DOMAIN conn_start'
    /\ (last'.probe = "tcp_rcv_state_process" /\ last'.sk \notin DOMAIN conn_start) =>
          UNCHANGED connVars

C8_OneSamplePerStart ==
    [][C8_Blk /\ C8_Rq /\ C8_Softirq /\ C8_Syscall /\ C8_Connect]_vars

\* a block request was started and completed: one sample, the start consumed
W_C8 ==
    /\ last.probe = "block_rq_complete"
    /\ BlkSamples = 1
    /\ last.rq \notin DOMAIN blk_start

(***************************************************************************)
(* C9: in every latency pairing a completion that finds now < start        *)
(* records nothing (no histogram, no counter) and leaves the start         *)
(* cleared.  The pointer-keyed paths compare the timestamps; the pid- and  *)
(* CPU-keyed paths subtract without comparing and record the wrapped       *)
(* difference.                                                             *)
(***************************************************************************)
C9_Step ==
    /\ (/\ last'.probe = "block_rq_complete"
        /\ last'.rq \in DOMAIN blk_start
        /\ blk_start[last'.rq] > last'.ts) =>
          (blk_hist' = blk_hist /\ last'.rq \notin DOMAIN blk_start')
    /\ (/\ last'.probe = "tcp_rcv_state_process"
        /\ last'.syn_sent
        /\ last'.sk \in DOMAIN conn_start
        /\ conn_start[last'.sk] > last'.ts) =>
          (conn_latency' = conn_latency /\ last'.sk \notin DOMAIN conn_start')
    /\ (/\ last'.probe = "tcp_rcv_space_adjust"
        /\ last'.sk \in DOMAIN pkt_start
        /\ pkt_start[last'.sk] > last'.ts) =>
          (pkt_latency' = pkt_latency /\ last'.sk \notin DOMAIN pkt_start')
    /\ (/\ last'.probe = "sched_switch"
        /\ ArrGet(rq_at.enqueued, last'.next) > last'.ts) =>
          /\ rq_hist'.runqlat = rq_hist.runqlat
          /\ ArrGet(rq_counters', RQ_COUNTER_GROUP_WIDTH * last'.cpu + RUNQ_WAIT)
                = ArrGet(rq_counters, RQ_COUNTER_GROUP_WIDTH * last'.cpu + RUNQ_WAIT)
          /\ ArrGet(rq_at'.enqueued, last'.next) = 0
    /\ (/\ last'.probe = "sched_switch"
        /\ last'.prev_running
        /\ ArrGet(rq_at.running, last'.prev) > last'.ts) =>
          rq_hist'.running = rq_hist.running
    /\ (/\ last'.probe = "sl_sys_exit"
        /\ last'.id >= 0
        /\ ArrGet(sl_start, last'.tid) > last'.ts) =>
          (sl_hist' = sl_hist /\ ArrGet(sl_start', last'.tid) = 0)
    /\ (/\ last'.probe = "softirq_exit"
        /\ ArrGet(cu_softirq_start, last'.cpu) > last'.ts) =>
          /\ cu_softirq_time' = cu_softirq_time
          /\ cu_cpu_usage' = cu_cpu_usage
          /\ ArrGet(cu_softirq_start', last'.cpu) = 0

C9_ClockAnomalyDropped == [][C9_Step]_vars

(***************************************************************************)
(* C10: the pointer-keyed start tables never hold more entries than their  *)
(* capacity, and a start for a new key that finds its table full is        *)
(* dropped, leaving the stored entries as they were.                       *)
(***************************************************************************)
TableFull(map) == Cardinality(DOMAIN map) >= HashSlots

C10_Step ==
    /\ Cardinality(DOMAIN blk_start') <= HashSlots
    /\ Cardinality(DOMAIN conn_start') <= HashSlots
    /\ Cardinality(DOMAIN pkt_start') <= HashSlots
    /\ (/\ last'.probe = "block_rq_start"
        /\ TableFull(blk_start)
        /\ last'.rq \notin DOMAIN blk_start) => blk_start' = blk_start
    /\ (/\ last'.probe = "tcp_connect"
        /\ TableFull(conn_start)
        /\ last'.sk \notin DOMAIN conn_start) => conn_start' = conn_start
    /\ (/\ last'.probe = "tcp_probe"
        /\ TableFull(pkt_start)
        /\ last'.sk \notin DOMAIN pkt_start) => pkt_start' = pkt_start

C10_StartTablesBounded == [][C10_Step]_vars

\* a start for a new request found the table full and was dropped
W_C10 ==
    /\ last.probe = "block_rq_start"
    /\ last.rq \notin DOMAIN blk_start
    /\ Cardinality(DOMAIN blk_start) = HashSlots

(***************************************************************************)
(* C11: every per-CPU counter slot (index cpu * GROUP_WIDTH + slot) is     *)
(* monotonically non-decreasing over any sequence of probe events, the     *)
(* time-valued accumulators such as the runqueue RUNQ_WAIT slot included.  *)
(***************************************************************************)
NonDecreasing(old, new) == \A i \in DOMAIN old : ArrGet(new, i) >= old[i]

C11_Step ==
    /\ NonDecreasing(tlb_events, tlb_events')
    /\ NonDecreasing(sc_counters, sc_counters')
    /\ NonDecreasing(rq_counters, rq_counters')
    /\ NonDecreasing(sl_counters, sl_counters')
    /\ NonDecreasing(cu_softirq, cu_softirq')
    /\ NonDecreasing(cu_softirq_time, cu_softirq_time')
    /\ NonDecreasing(cu_cpu_usage, cu_cpu_usage')

C11_PerCpuCountersMonotonic == [][C11_Step]_vars

(***************************************************************************)
(* C12: for any interleaving of concurrent array_set_if_larger calls on    *)
(* one slot, at most one update is lost: once the calls have returned the  *)
(* slot is not below its initial value and is at least every offered value *)
(* except possibly one; when the calls did not overlap it holds the        *)
(* maximum of the initial value and the offered values.                    *)
(***************************************************************************)
LargerQuiescent == \A c \in Cpus : larger_ctx[c].pc = "idle"

LargerLost ==
    {i \in 1 .. Len(larger_log.offered) : larger_log.offered[i] > ArrGet(larger_array, 0)}

LargerMax ==
    LET vs == {larger_log.initial}
                 \cup {larger_log.offered[i] : i \in 1 .. Len(larger_log.offered)}
    IN  CHOOSE v \in vs : \A w \in vs : w <= v

C12_AtMostOneUpdateLost ==
    (sampler = "set_if_larger" /\ LargerQuiescent)
        => /\ ArrGet(larger_array, 0) >= larger_log.initial
           /\ Cardinality(LargerLost) <= 1
           /\ (~ larger_log.overlapped) => ArrGet(larger_array, 0) = LargerMax

(***************************************************************************)
(* Views of the task identity state of the cpu usage sampler.              *)
(***************************************************************************)
HasTaskRecord(ring, pid, start) ==
    \E i \in 1 .. Len(ring.data) :
       ring.data[i].pid = pid /\ ring.data[i].epoch = start

\* the pids update_pid_info is called for by the sched_switch that ran
\* from the unprimed state with arguments l
SeenBySwitch(l) ==
    LET missed == l.prev > 0 /\ l.prev < MAX_PID
                  /\ ArrGet(cu_task.last_switch, l.prev) = 0
    IN  (IF l.prev > 0 /\ l.prev < MAX_PID THEN {l.prev} ELSE {})
        \cup (IF missed THEN {} ELSE {l.next})

\* the usage the sched_switch with arguments l adds for pid p
SwitchUsage(l, p) ==
    IF p = l.prev /\ ArrGet(cu_task.last_switch, p) # 0
    THEN WSub(l.now, ArrGet(cu_task.last_switch, p))
    ELSE 0

(***************************************************************************)
(* C13: in every reachable state, every pid whose task_usage slot is       *)
(* non-zero has a task_info record for the start time of the task that     *)
(* now holds the pid on the task ring, and no task_exit record for that    *)
(* start time; tasks of the root cgroup and of cgroups with an id of       *)
(* MAX_CGROUPS or more are included.                                       *)
(***************************************************************************)
C13_NonZeroUsageHasIdentity ==
    sampler = "cpu_usage" =>
        \A p \in UsagePids :
           ArrGet(cu_task.usage, p) # 0 =>
              /\ HasTaskRecord(cu_task.info, p, task_start_time[p])
              /\ ~ HasTaskRecord(cu_task.exit, p, task_start_time[p])

(***************************************************************************)
(* C14: when a sched_switch sees a task whose pid has another, non-zero    *)
(* stored start time (the pid was reused), then after the probe a          *)
(* task_info record for the new task is on the ring and task_usage of the  *)
(* pid holds only what this probe added for the new task.                  *)
(***************************************************************************)
C14_Step ==
    (sampler = "cpu_usage" /\ nevents' = nevents + 1 /\ last'.probe = "cu_sched_switch")
        => \A p \in SeenBySwitch(last') :
              (/\ ArrGet(cu_task.start, p) # 0
               /\ ArrGet(cu_task.start, p) # task_start_time[p])
                  => /\ HasTaskRecord(cu_task'.info, p, task_start_time[p])
                     /\ ArrGet(cu_task'.usage, p) = SwitchUsage(last', p)

C14_PidReuseResetsAndAnnounces == [][C14_Step]_vars

(***************************************************************************)
(* C15: sched_process_exit for pid p zeroes task_usage, task_start,        *)
(* task_last_switch and task_syscall_depth of p, and puts a task_exit      *)
(* record carrying p on the task-exit ring.  As stated the record is there *)
(* after every exit; it is there when the ring had room, and the ring is   *)
(* left alone when it had none.                                            *)
(***************************************************************************)
ExitZeroed(p) ==
    /\ ArrGet(cu_task'.usage, p) = 0
    /\ ArrGet(cu_task'.start, p) = 0
    /\ ArrGet(cu_task'.last_switch, p) = 0
    /\ ArrGet(cu_task'.syscall_depth, p) = 0

ExitRan == sampler = "cpu_usage" /\ nevents' = nevents + 1
           /\ last'.probe = "sched_process_exit"

C15_StepAlways ==
    ExitRan => /\ ExitZeroed(last'.pid)
               /\ cu_task'.exit.data
                     = Append(cu_task.exit.data,
                              TaskExit(last'.pid, task_start_time[last'.pid]))

C15_Step ==
    ExitRan => /\ ExitZeroed(last'.pid)
               /\ cu_task'.exit
                     = IF RingFull(cu_task.exit) THEN cu_task.exit
                       ELSE [cu_task.exit EXCEPT
                             !.data = Append(@, TaskExit(last'.pid,
                                                         task_start_time[last'.pid]))]

Indexed == indexer.pc \in {"indexed", "recorded"}

\* v >= 2^(m+1): the logarithmic region
InLogRegion(v, m) == ~ Less(v, U64(2 * (2 ^ m)))

\* the bucket the indexing contract names for a value of the logarithmic
\* region: (p - m + 1) * 2^m + ((v - 2^p) >> (p - m)), p the leading one
ContractIndex(v, m) ==
    LET p == TopBit(v)
    IN  (p - m + 1) * (2 ^ m) + Num(Shr(v \ {p}, p - m))

(***************************************************************************)
(* C16: for every histogram of grouping power 3..7 and every value v >= 1, *)
(* histogram_incr increments exactly the bucket value_to_index(v, m) by 1, *)
(* changes no other bucket, and that index is below the declared bucket    *)
(* count, so the sample is not dropped by the bounds check.                *)
(***************************************************************************)
C16_OneBucketPerSample ==
    (indexer.pc = "recorded" /\ indexer.v1 # {})
        => /\ indexer.idx1 < HistogramBuckets(indexer.grouping_power)
           /\ indexer.buckets = ArrPut(EmptyArr, indexer.idx1, 1)

(***************************************************************************)
(* C17: for every value >= 2^(m+1) and every m in 0..7, value_to_index     *)
(* returns (p - m + 1) * 2^m + ((value - 2^p) >> (p - m)), p the position  *)
(* of the leading one, over the whole 64-bit range.                        *)
(***************************************************************************)
C17_LogRegionIndex ==
    (Indexed /\ InLogRegion(indexer.v1, indexer.grouping_power))
        => indexer.idx1 = ContractIndex(indexer.v1, indexer.grouping_power)

(***************************************************************************)
(* C18: value_to_index is monotonic in the logarithmic region: v1 < v2,    *)
(* both >= 2^(m+1), implies index(v1, m) <= index(v2, m).                  *)
(***************************************************************************)
C18_MonotonicIndex ==
    (/\ Indexed
     /\ InLogRegion(indexer.v1, indexer.grouping_power)
     /\ InLogRegion(indexer.v2, indexer.grouping_power)
     /\ Less(indexer.v1, indexer.v2))
        => indexer.idx1 <= indexer.idx2

(***************************************************************************)
(* C19: in the linear region the index is the value itself: for every m in *)
(* 0..7 and every v < 2^(m+1), v = 0 included, value_to_index(v, m) = v.   *)
(***************************************************************************)
C19_LinearRegionIdentity ==
    (Indexed /\ ~ InLogRegion(indexer.v1, indexer.grouping_power))
        => indexer.idx1 = Num(indexer.v1)

\* 255, the largest value of the linear region, has been indexed with grouping power 7
W_C19 ==
    /\ Indexed
    /\ indexer.grouping_power = 7
    /\ indexer.v1 = 0 .. 7
    /\ indexer.idx1 = 255

(***************************************************************************)
(* C20: clz(0) returns 64.                                                 *)
(***************************************************************************)
C20_ClzOfZero ==
    (Indexed /\ indexer.v1 = {}) => indexer.lz = 64

(***************************************************************************)
(* C21: in the sched_switch hooks of the perf and frequency samplers, when *)
(* a counter reads less than the value stored for the CPU, nothing is      *)
(* added to the slot of the outgoing task's cgroup for that counter: the   *)
(* slot keeps its value, or is 0 when the cgroup was just seen anew.       *)
(***************************************************************************)
C21_Step ==
    (sampler \in {"perf", "frequency"} /\ nevents' = nevents + 1
     /\ last'.probe = "perf_sched_switch")
        => LET id == TaskCgroupId(last'.prev_tg)
               fresh == ArrGet(perf.cgroup_serial_numbers, id) # TaskSerial(last'.prev_tg)
           IN  (id # 0 /\ id < MAX_CGROUPS)
                  => \A k \in PerfCounters :
                        last'.reading[k] < ArrGet(perf.prev[k], last'.cpu)
                           => ArrGet(perf'.cgroup[k], id)
                                 = IF fresh THEN 0 ELSE ArrGet(perf.cgroup[k], id)

C21_ResetCounterAddsZero == [][C21_Step]_vars

(***************************************************************************)
(* C22: a block_rq_complete on CPU c whose op = cmd_flags & 0xff is read   *)
(* (0), write (1), flush (2) or discard (3) adds 1 to counters[c*8 + op],  *)
(* adds nr_bytes to counters[c*8 + 4 + op], adds 1 to the size histogram   *)
(* of the op at value_to_index(nr_bytes, 3) and changes no other slot; a   *)
(* completion with another op changes nothing.                             *)
(***************************************************************************)
Bumped(a, i, v) == ArrPut(a, i, WAdd(ArrGet(a, i), v))

SizeOf(op) == CASE op = 0 -> "read" [] op = 1 -> "write" [] op = 2 -> "flush"
                [] OTHER -> "discard"

C22_Step ==
    (sampler = "blockio_requests" /\ nevents' = nevents + 1
     /\ last'.probe = "requests_rq_complete")
        => LET c == last'.cpu
               op == last'.cmd_flags % 256
               idx == value_to_index(U64(last'.nr_bytes), 3)
           IN  IF op \in 0 .. 3
               THEN /\ requests'.counters
                          = Bumped(Bumped(requests.counters, c * 8 + op, 1),
                                   c * 8 + 4 + op, last'.nr_bytes)
                    /\ requests'.size
                          = [requests.size EXCEPT ![SizeOf(op)] = Bumped(@, idx, 1)]
               ELSE requests' = requests

C22_CompletionCounted == [][C22_Step]_vars

\* a write of 17 bytes with a flag bit set has been counted: 17 is in the
\* logarithmic region, at index 16
W_C22 ==
    /\ sampler = "blockio_requests"
    /\ last.probe = "requests_rq_complete"
    /\ last.cmd_flags = 257 /\ last.nr_bytes = 17 /\ last.cpu = 1
    /\ ArrGet(requests.counters, 9) >= 1
    /\ ArrGet(requests.counters, 13) >= 17
    /\ ArrGet(requests.size.write, 16) >= 1

(***************************************************************************)
(* C23: a sched_wakeup of a non-zero pid at t0 that is directly followed   *)
(* by a sched_switch to that pid at t1 >= t0 on CPU c bumps                *)
(* runqlat[value_to_index(t1 - t0, 3)] by one, adds t1 - t0 to             *)
(* counters[c*8 + RUNQ_WAIT], stores running_at[pid] = t1 and clears       *)
(* enqueued_at[pid].                                                       *)
(***************************************************************************)
WokenThenSwitchedIn ==
    /\ sampler = "runqueue"
    /\ last.probe = "sched_wakeup" /\ last.pid # 0
    /\ last'.probe = "sched_switch" /\ last'.next = last.pid
    /\ last'.ts >= last.ts

C23_Step ==
    WokenThenSwitchedIn =>
        LET pid == last.pid
            wait == last'.ts - last.ts
            idx == RQ_COUNTER_GROUP_WIDTH * last'.cpu + RUNQ_WAIT
        IN  /\ rq_hist'.runqlat =
                 Bumped(rq_hist.runqlat, value_to_index(U64(wait), 3), 1)
            /\ ArrGet(rq_counters', idx) = WAdd(ArrGet(rq_counters, idx), wait)
            /\ ArrGet(rq_at'.running, pid) = last'.ts
            /\ ArrGet(rq_at'.enqueued, pid) = 0

C23_WakeupThenSwitchMeasuresWait == [][C23_Step]_vars

\* a task woken at 1 and switched in at 3 has waited 2
W_C23 ==
    /\ sampler = "runqueue"
    /\ last.probe = "sched_switch" /\ last.next = 1 /\ last.ts = 3
    /\ ArrGet(rq_hist.runqlat, 2) = 1
    /\ last.cpu = 1
    /\ ArrGet(rq_counters, RQ_COUNTER_GROUP_WIDTH + RUNQ_WAIT) = 2
    /\ ArrGet(rq_at.running, 1) = 3
    /\ ArrGet(rq_at.enqueued, 1) = 0

(***************************************************************************)
(* C24: a softirq_exit that finds the start of its CPU adds the duration   *)
(* exit - entry to softirq_time[c*16 + vec] and to the per-CPU SYSTEM slot *)
(* cpu_usage[c*8 + SYSTEM_OFFSET].  The probe never reads the interrupted  *)
(* task, so every softirq of the model may be one that interrupted the     *)
(* idle task.                                                              *)
(***************************************************************************)
SoftirqCompleted ==
    /\ sampler = "cpu_usage"
    /\ last'.probe = "softirq_exit"
    /\ ArrGet(cu_softirq_start, last'.cpu) # 0
    /\ last'.ts >= ArrGet(cu_softirq_start, last'.cpu)

C24_Step ==
    SoftirqCompleted =>
        LET c == last'.cpu
            dur == last'.ts - ArrGet(cu_softirq_start, c)
            t == SOFTIRQ_GROUP_WIDTH * c + last'.vec
            s == CPU_USAGE_GROUP_WIDTH * c + SYSTEM_OFFSET
        IN  /\ ArrGet(cu_softirq_time', t) = WAdd(ArrGet(cu_softirq_time, t), dur)
            /\ ArrGet(cu_cpu_usage', s) = WAdd(ArrGet(cu_cpu_usage, s), dur)

C24_IdleSoftirqIsSystemTime == [][C24_Step]_vars

(***************************************************************************)
(* C25: a sys_enter with a non-negative id on CPU c adds one to exactly    *)
(* one per-CPU slot, counters[c*16 + f], where f is syscall_lut[id] when   *)
(* id < 1024 and 0 < syscall_lut[id] < 16 and f is 0 otherwise; a          *)
(* sys_enter with a negative id changes no counter.                        *)
(***************************************************************************)
FamilyOf(id) ==
    IF id < 1024 /\ id \in DOMAIN syscall_lut /\ syscall_lut[id] > 0 /\ syscall_lut[id] < 16
    THEN syscall_lut[id]
    ELSE 0

C25_Step ==
    (sampler = "syscall_counts" /\ last'.probe = "sys_enter" /\ nevents' # nevents) =>
        IF last'.id >= 0
        THEN sc_counters' = Bumped(sc_counters, last'.cpu * 16 + FamilyOf(last'.id), 1)
        ELSE UNCHANGED <<sc_counters, sc_cgroup>>

C25_OneSlotPerSyscall == [][C25_Step]_vars

\* CPU 1 has counted a syscall of family 1 and one whose table value is 16
W_C25 ==
    /\ sampler = "syscall_counts"
    /\ last.probe = "sys_enter" /\ last.id = 2 /\ last.cpu = 1
    /\ ArrGet(sc_counters, 16 + 1) = 1
    /\ ArrGet(sc_counters, 16) = 1

(***************************************************************************)
(* C26: the starts of the TCP connect latency sampler follow an exclusive  *)
(* lifecycle.  A connect stores a start only for a socket that has none    *)
(* pending and leaves every pending start as it is; tcp_rcv_state_process  *)
(* deletes the start, and records at most one sample, only when the socket *)
(* is in SYN_SENT and has a start, and changes nothing otherwise;          *)
(* tcp_destroy_sock leaves the socket without a start, so that the next    *)
(* completion for that socket is one of those that change nothing.         *)
(***************************************************************************)
OtherStartsKept(sk) ==
    \A k \in (DOMAIN conn_start) \ {sk} : k \in DOMAIN conn_start' /\ conn_start'[k] = conn_start[k]

C26_Connect ==
    LET sk == last'.sk
    IN  /\ conn_latency' = conn_latency
        /\ OtherStartsKept(sk)
        /\ DOMAIN conn_start' \subseteq (DOMAIN conn_start) \cup {sk}
        /\ IF sk \in DOMAIN conn_start
           THEN conn_start' = conn_start
           ELSE sk \in DOMAIN conn_start' => conn_start'[sk] = last'.ts

C26_StateProcess ==
    LET sk == last'.sk
    IN  IF last'.syn_sent /\ sk \in DOMAIN conn_start
        THEN /\ conn_start' = hash_delete(conn_start, sk)
             /\ Samples(conn_latency') =
                   Samples(conn_latency) + (IF conn_start[sk] <= last'.ts THEN 1 ELSE 0)
        ELSE UNCHANGED <<conn_start, conn_latency>>

C26_Destroy ==
    /\ last'.sk \notin DOMAIN conn_start'
    /\ OtherStartsKept(last'.sk)
    /\ conn_latency' = conn_latency

C26_Step ==
    (sampler = "tcp_connect_latency" /\ nevents' # nevents) =>
        /\ last'.probe = "tcp_connect" => C26_Connect
        /\ last'.probe = "tcp_rcv_state_process" => C26_StateProcess
        /\ last'.probe = "tcp_destroy_sock" => C26_Destroy

C26_ExclusiveStartLifecycle == [][C26_Step]_vars

\* a second connect on a socket has left the earlier timestamp in place
W_C26 ==
    /\ sampler = "tcp_connect_latency"
    /\ last.probe = "tcp_connect"
    /\ last.sk \in DOMAIN conn_start
    /\ conn_start[last.sk] < last.ts

(***************************************************************************)
(* C27: within one epoch of a cgroup id (its serial unchanged) no          *)
(* per-cgroup counter of the id decreases, whatever the interleaving: when *)
(* two CPUs detect the new epoch concurrently, the zeroing of one does not *)
(* erase an increment the other has applied.  The formula reads it on the  *)
(* tlb_flush sampler, where the serial is stored after the zeroing: a      *)
(* probe that is about to zero and finds its own serial stored is the      *)
(* second to detect the epoch, and what the counters hold has been added   *)
(* since the first one zeroed them.                                        *)
(***************************************************************************)
SecondToZero(c) ==
    /\ sampler = "tlb_flush"
    /\ ctx[c].pc = "zero" /\ ctx'[c].pc # "zero"
    /\ ctx[c].serial_nr = css_serial[ctx[c].cgroup_id]
    /\ ArrGet(tlb_cgroup_serial_numbers, ctx[c].cgroup_id) = ctx[c].serial_nr

C27_Step ==
    \A c \in Cpus :
        SecondToZero(c) =>
            \A r \in TlbReasons :
                ArrGet(tlb_cgroup'[r], ctx[c].cgroup_id) >= ArrGet(tlb_cgroup[r], ctx[c].cgroup_id)

C27_NoIncrementErasedInEpoch == [][C27_Step]_vars

(***************************************************************************)
(* C28: throttle intervals are paired per (cpu, cgroup id).  When a cfs_rq *)
(* of a cgroup is unthrottled, having been throttled within the epoch the  *)
(* serial table holds, throttled_time[id] grows by the length of that      *)
(* cfs_rq's own interval, whatever the cfs_rqs of the same cgroup on other *)
(* CPUs did meanwhile: over two overlapping intervals it grows by the sum  *)
(* of both.                                                                *)
(***************************************************************************)
OwnIntervalEnds(cpu, id) ==
    /\ sampler \in {"bandwidth", "throttled"}
    /\ last'.probe = "unthrottle_cfs_rq" /\ last'.cpu = cpu /\ last'.id = id
    /\ Tracked(id)
    /\ id \in DOMAIN cfs_throttled[cpu]
    /\ cfs_throttled[cpu][id].serial = css_serial[id]
    /\ ArrGet(bandwidth.cgroup_serial_numbers, id) = css_serial[id]

C28_Step ==
    \A cpu \in Cpus, id \in CgroupIds :
        OwnIntervalEnds(cpu, id) =>
            ArrGet(bandwidth'.throttled_time, id) =
                WAdd(ArrGet(bandwidth.throttled_time, id),
                     last'.ts - cfs_throttled[cpu][id].since)

C28_IntervalsPairedPerCpu == [][C28_Step]_vars

(***************************************************************************)
(* C29: unthrottle_cfs_rq of the bandwidth sampler adds now - start to     *)
(* throttled_time[id] and clears throttle_start[id] exactly when the       *)
(* stored serial of id equals the serial of the cfs_rq's group and the     *)
(* stored start is non-zero; for id 0, an id out of range, another serial  *)
(* or no start it changes no counter and no start.                         *)
(***************************************************************************)
C29_Step ==
    (sampler = "bandwidth" /\ last'.probe = "unthrottle_cfs_rq") =>
        LET id == last'.id
            start == ArrGet(bandwidth.throttle_start, id)
        IN  IF /\ id # 0 /\ id < MAX_CGROUPS
               /\ ArrGet(bandwidth.cgroup_serial_numbers, id) = last'.serial
               /\ start # 0
            THEN /\ bandwidth'.throttled_time =
                       Bumped(bandwidth.throttled_time, id, last'.ts - start)
                 /\ bandwidth'.throttle_start = ArrPut(bandwidth.throttle_start, id, 0)
                 /\ bandwidth'.throttled_count = bandwidth.throttled_count
            ELSE bandwidth' = bandwidth

C29_UnthrottleMatchesSerialAndStart == [][C29_Step]_vars

\* a cfs_rq throttled at 1 has been unthrottled at 2 and its interval has
\* been added
W_C29 ==
    /\ sampler = "bandwidth"
    /\ last.probe = "unthrottle_cfs_rq" /\ last.id = 1 /\ last.ts = 2
    /\ last.serial = css_serial[1]
    /\ ArrGet(bandwidth.throttled_time, 1) = 1
    /\ ArrGet(bandwidth.throttle_start, 1) = 0
    /\ ArrGet(bandwidth.throttled_count, 1) = 1

(***************************************************************************)
(* C30: in the bandwidth sampler an unthrottle that adds to                *)
(* throttled_time[id] consumes a start that was stored within the epoch    *)
(* the serial table holds, never one left behind by a previous occupant of *)
(* the id, so that throttled_time[id] never exceeds the time elapsed since *)
(* the stored (id, serial) was first observed.                             *)
(***************************************************************************)
ConsumedStartIsOfEpoch ==
    (/\ last'.probe = "unthrottle_cfs_rq"
     /\ bandwidth'.throttled_time # bandwidth.throttled_time) =>
        ArrGet(bandwidth.throttle_start, last'.id) >= ArrGet(epoch_seen, last'.id)

WithinEpoch ==
    \A id \in CgroupIds :
        ArrGet(bandwidth.throttled_time, id) <= Now - ArrGet(epoch_seen, id)

C30_Step == sampler = "bandwidth" => (ConsumedStartIsOfEpoch /\ WithinEpoch')

C30_StartIsOfCurrentEpoch == [][C30_Step]_vars

(***************************************************************************)
(* C31: after every sched_switch of the cpu usage sampler with a non-zero  *)
(* next pid, task_last_switch[next_pid] is the timestamp of that switch,   *)
(* also when the outgoing task had no last-switch timestamp.               *)
(***************************************************************************)
C31_Step ==
    (sampler = "cpu_usage" /\ last'.probe = "cu_sched_switch" /\ nevents' # nevents
     /\ last'.next # 0) =>
        ArrGet(cu_task'.last_switch, last'.next) = last'.now

C31_SwitchInStampsNext == [][C31_Step]_vars

(***************************************************************************)
(* C32: a task that was switched in at t0 enters a syscall at t1 (depth 0  *)
(* to 1) and leaves it at t2 (depth 1 to 0) without a switch in between:   *)
(* the sys_enter adds t1 - t0 to the USER slot of the CPU and moves the    *)
(* timestamp of the task to t1, the sys_exit adds t2 - t1 to the SYSTEM    *)
(* slot, and the depth is back at 0.                                       *)
(***************************************************************************)
C32_UserSlot == CPU_USAGE_GROUP_WIDTH * last'.cpu + USER_OFFSET

C32_SystemSlot == CPU_USAGE_GROUP_WIDTH * last'.cpu + SYSTEM_OFFSET

C32_EnterStep ==
    (/\ sampler = "cpu_usage" /\ last'.probe = "cu_sys_enter" /\ nevents' # nevents
     /\ ArrGet(cu_task.syscall_depth, last'.pid) = 0
     /\ ArrGet(cu_task.last_switch, last'.pid) # 0) =>
        /\ ArrGet(cu_task'.syscall_depth, last'.pid) = 1
        /\ ArrGet(cu_task'.last_switch, last'.pid) = last'.now
        /\ ArrGet(cu_cpu_usage', C32_UserSlot) =
              WAdd(ArrGet(cu_cpu_usage, C32_UserSlot),
                   WSub(last'.now, ArrGet(cu_task.last_switch, last'.pid)))

C32_ExitStep ==
    (/\ sampler = "cpu_usage" /\ last'.probe = "cu_sys_exit" /\ nevents' # nevents
     /\ ArrGet(cu_task.syscall_depth, last'.pid) = 1
     /\ ArrGet(cu_task.last_switch, last'.pid) # 0) =>
        /\ ArrGet(cu_task'.syscall_depth, last'.pid) = 0
        /\ ArrGet(cu_cpu_usage', C32_SystemSlot) =
              WAdd(ArrGet(cu_cpu_usage, C32_SystemSlot),
                   WSub(last'.now, ArrGet(cu_task.last_switch, last'.pid)))

C32_SyscallSplitsUserAndSystem == [][C32_EnterStep /\ C32_ExitStep]_vars

(***************************************************************************)
(* The off-cpu specification: wakeups and switches of the runqueue sampler *)
(* on one CPU under a clock that moves forward with every event, followed  *)
(* long enough for a task to go off the CPU, be woken and be switched in.  *)
(***************************************************************************)
MaxOffcpuEvents == 3

MaxOffcpuTime == 4

\* the timestamp of the last probe
LastTs == IF "ts" \in DOMAIN last THEN last.ts ELSE 0

LaterTimes == {ts \in 1 .. MaxOffcpuTime : ts > LastTs}

InitOffcpu ==
    /\ sampler = "runqueue"
    /\ InitMaps

NextOffcpu ==
    \/ \E p \in Pids, ts \in LaterTimes :
          nevents < MaxOffcpuEvents /\ handle__sched_wakeup(p, ts)
    \/ \E prev \in Pids, next \in Pids, running \in BOOLEAN, ts \in LaterTimes :
          /\ nevents < MaxOffcpuEvents
          /\ handle__sched_switch(0, ts, prev, running, TaskGroupOf(prev),
                                  next, TaskGroupOf(next), 0)

SpecOffcpu == InitOffcpu /\ [][NextOffcpu]_vars

(***************************************************************************)
(* C33: whenever a sched_switch of the runqueue sampler records an off-CPU *)
(* sample for the task switched in (its off-CPU delta exceeds its          *)
(* runqueue wait), the amount added to cgroup_offcpu of the task's cgroup  *)
(* is the duration counted in the offcpu histogram: the off-CPU delta      *)
(* minus the runqueue wait.                                                *)
(***************************************************************************)
OffcpuSampled ==
    /\ sampler = "runqueue"
    /\ last'.probe = "sched_switch" /\ nevents' # nevents
    /\ ArrGet(rq_at.enqueued, last'.next) # 0
    /\ ArrGet(rq_at.offcpu, last'.next) # 0
    /\ last'.prev_tg # NoGroup /\ last'.next_tg # NoGroup
    /\ TaskCgroupId(last'.next_tg) # 0 /\ TaskCgroupId(last'.next_tg) < MAX_CGROUPS
    /\ \A tg \in {last'.prev_tg, last'.next_tg} :
          (TaskCgroupId(tg) # 0 /\ TaskCgroupId(tg) < MAX_CGROUPS) =>
             ArrGet(rq_cgroup_serial_numbers, TaskCgroupId(tg)) = TaskSerial(tg)
    /\ WSub(last'.ts, ArrGet(rq_at.offcpu, last'.next)) >
          WSub(last'.ts, ArrGet(rq_at.enqueued, last'.next))

C33_Step ==
    OffcpuSampled =>
        LET cgroup_id == TaskCgroupId(last'.next_tg)
            offcpu_ns == WSub(WSub(last'.ts, ArrGet(rq_at.offcpu, last'.next)),
                              WSub(last'.ts, ArrGet(rq_at.enqueued, last'.next)))
        IN  /\ rq_hist'.offcpu =
                 Bumped(rq_hist.offcpu, value_to_index(U64(offcpu_ns), 3), 1)
            /\ ArrGet(rq_cgroup'.offcpu, cgroup_id) =
                 WAdd(ArrGet(rq_cgroup.offcpu, cgroup_id), offcpu_ns)

C33_CgroupOffcpuIsHistogramDuration == [][C33_Step]_vars

(***************************************************************************)
(* C34: the idle task (pid 0) never contributes to the runqueue latency:   *)
(* over any sequence of wakeups and switches enqueued_at[0] stays 0, and a *)
(* switch to pid 0 records no runqlat sample and adds nothing to the       *)
(* RUNQ_WAIT counter of the CPU.                                           *)
(***************************************************************************)
C34_Step ==
    sampler = "runqueue" =>
        /\ ArrGet(rq_at'.enqueued, 0) = 0
        /\ (last'.probe = "sched_switch" /\ nevents' # nevents /\ last'.next = 0) =>
              LET idx == RQ_COUNTER_GROUP_WIDTH * last'.cpu + RUNQ_WAIT
              IN  /\ rq_hist'.runqlat = rq_hist.runqlat
                  /\ ArrGet(rq_counters', idx) = ArrGet(rq_counters, idx)

C34_IdleNeverWaits == [][C34_Step]_vars

(***************************************************************************)
(* C35: a block_rq_insert or block_rq_issue for a request that has a       *)
(* stored start overwrites it, so that of an insert at t1 and an issue at  *)
(* t2 > t1 the later one is kept; a start for a request without one is     *)
(* stored when the table has room; and the latency that block_rq_complete  *)
(* records at t3 is t3 minus the stored start: t3 - t2 after both, the     *)
(* time since the one that fired otherwise.                                *)
(***************************************************************************)
BlkHistOf(cmd_flags) ==
    CASE cmd_flags % (REQ_OP_MASK + 1) = REQ_OP_READ -> "read"
      [] cmd_flags % (REQ_OP_MASK + 1) = REQ_OP_WRITE -> "write"
      [] cmd_flags % (REQ_OP_MASK + 1) = REQ_OP_FLUSH -> "flush"
      [] cmd_flags % (REQ_OP_MASK + 1) = REQ_OP_DISCARD -> "discard"
      [] OTHER -> "none"

C35_Start ==
    (/\ last'.probe = "block_rq_start"
     /\ last'.rq \in DOMAIN blk_start \/ Cardinality(DOMAIN blk_start) < HashSlots) =>
        /\ last'.rq \in DOMAIN blk_start'
        /\ blk_start'[last'.rq] = last'.ts

C35_Complete ==
    (/\ last'.probe = "block_rq_complete"
     /\ last'.rq \in DOMAIN blk_start
     /\ blk_start[last'.rq] <= last'.ts
     /\ BlkHistOf(last'.cmd_flags) # "none") =>
        LET h == BlkHistOf(last'.cmd_flags)
            latency == last'.ts - blk_start[last'.rq]
        IN  blk_hist'[h] =
               Bumped(blk_hist[h], value_to_index(U64(latency), BLK_HISTOGRAM_POWER), 1)

C35_Step ==
    (sampler = "blockio_latency" /\ nevents' # nevents) => C35_Start /\ C35_Complete

C35_LaterStartWins == [][C35_Step]_vars

\* an issue at 2 has overwritten the start that was stored at 1
W_C35 ==
    /\ sampler = "blockio_latency"
    /\ last.probe = "block_rq_start" /\ last.issue
    /\ last.old = 1 /\ last.ts = 2
    /\ blk_start[last.rq] = 2

(***************************************************************************)
(* The migrations specification: the sched_switch probe of the migrations  *)
(* sampler, one whole probe at a time, on every CPU, with cgroup ids that  *)
(* go to new groups.                                                       *)
(***************************************************************************)
InitMigrations ==
    /\ sampler = "migrations"
    /\ InitMaps

NextMigrations ==
    \/ \E g \in CgroupIds : CgroupReuse(g)
    \/ \E c \in Cpus, next \in MigPids :
          mig_handle__sched_switch(c, next, MigGroupOf(next))

SpecMigrations == InitMigrations /\ [][NextMigrations]_vars

(***************************************************************************)
(* The same probe running on several CPUs at once, one map operation at a  *)
(* time.                                                                   *)
(***************************************************************************)
NextMigConc ==
    \/ \E c \in Cpus, next \in MigPids : mig_enter(c, next, MigGroupOf(next))
    \/ \E c \in Cpus : mig_incr_from(c)
    \/ \E c \in Cpus : mig_incr_to(c)
    \/ \E c \in Cpus : mig_account_cgroup(c)
    \/ \E c \in Cpus : mig_store_cpu(c)

SpecMigConc == InitMigrations /\ [][NextMigConc]_vars

(***************************************************************************)
(* The softnet specification: the probes of the softnet sampler, one at a  *)
(* time, on every CPU.                                                     *)
(***************************************************************************)
InitSoftnetSampler ==
    /\ sampler = "softnet"
    /\ InitMaps

NextSoftnet ==
    \/ \E c \in Cpus, ts \in SoftnetTimes : net_rx_action_enter(c, ts)
    \/ \E c \in Cpus : napi_poll_enter_fn(c)
    \/ \E c \in Cpus, ret \in {0, 1} : napi_poll_exit_fn(c, ret)
    \/ \E c \in Cpus : napi_gro_receive_kprobe(c)
    \/ \E c \in Cpus, ret \in SoftnetRets, ts \in SoftnetTimes : net_rx_action_exit(c, ret, ts)

SpecSoftnet == InitSoftnetSampler /\ [][NextSoftnet]_vars

(***************************************************************************)
(* C36: a sched_switch of the migrations sampler with a non-zero next pid  *)
(* on CPU c: if last_cpu[next] is known (non-zero) and names a CPU o other *)
(* than c, cpu_migrations_from[o] and cpu_migrations_to[c] each grow by    *)
(* exactly 1, otherwise neither map changes; afterwards last_cpu[next] is  *)
(* c + 1.  A switch to pid 0 changes no counter and no last_cpu entry.     *)
(***************************************************************************)
C36_Step ==
    (sampler = "migrations" /\ last'.probe = "mig_sched_switch" /\ nevents' # nevents) =>
        LET c == last'.cpu
            next == last'.next
            known == ArrGet(mig.last_cpu, next)
        IN  IF next = 0
            THEN mig' = mig
            ELSE /\ IF known # 0 /\ known - 1 # c
                    THEN /\ mig'.cpu_migrations_from =
                               Bumped(mig.cpu_migrations_from, known - 1, 1)
                         /\ mig'.cpu_migrations_to = Bumped(mig.cpu_migrations_to, c, 1)
                    ELSE /\ mig'.cpu_migrations_from = mig.cpu_migrations_from
                         /\ mig'.cpu_migrations_to = mig.cpu_migrations_to
                 /\ ArrGet(mig'.last_cpu, next) = c + 1

MigQuiescent == \A c \in Cpus : mig_ctx[c].pc = "idle"

C37_FromEqualsTo ==
    (sampler = "migrations" /\ MigQuiescent) =>
        Samples(mig.cpu_migrations_from) = Samples(mig.cpu_migrations_to)

\* a migration has been counted step by step and every probe has returned
W_C37 ==
    /\ sampler = "migrations" /\ MigQuiescent
    /\ Samples(mig.cpu_migrations_from) = 1
    /\ Samples(mig.cpu_migrations_to) = 1
    /\ DOMAIN mig.cpu_migrations_from \subseteq Cpus
    /\ DOMAIN mig.cpu_migrations_to \subseteq Cpus

(***************************************************************************)
(* C38: at each net_rx_action exit on a CPU at most one outcome is         *)
(* counted, decided from what happened since the matching entry on that    *)
(* CPU: TIME_SQUEEZED if a poll function was called and one returned with  *)
(* work left and ret = 0 and the duration is above 900000 ns, otherwise    *)
(* BUDGET_EXHAUSTED if ret > 0, otherwise nothing; and the entry resets    *)
(* found_work and has_more_work, so that they do not carry over.           *)
(***************************************************************************)
C38_Squeezed ==
    /\ last'.polled /\ last'.more
    /\ last'.ret = 0
    /\ last'.ts - last'.start > SQUEEZE_NS

C38_Exit ==
    last'.probe = "net_rx_action_exit" =>
        LET base == SOFTNET_COUNTER_GROUP_WIDTH * last'.cpu
            squeezed == IF C38_Squeezed THEN 1 ELSE 0
            exhausted == IF ~C38_Squeezed /\ last'.ret > 0 THEN 1 ELSE 0
        IN  /\ ArrGet(softnet'.counters, base + TIME_SQUEEZED) =
                  WAdd(ArrGet(softnet.counters, base + TIME_SQUEEZED), squeezed)
            /\ ArrGet(softnet'.counters, base + BUDGET_EXHAUSTED) =
                  WAdd(ArrGet(softnet.counters, base + BUDGET_EXHAUSTED), exhausted)
            /\ squeezed + exhausted <= 1

C38_Entry ==
    last'.probe = "net_rx_action_enter" =>
        /\ softnet'.cpu_context[last'.cpu].found_work = 0
        /\ softnet'.cpu_context[last'.cpu].has_more_work = 0

C38_Step == (sampler = "softnet" /\ nevents' # nevents) => C38_Exit /\ C38_Entry

C38_OneOutcomePerExit == [][C38_Step]_vars

\* a net_rx_action that polled, was left with work and ran for 900001 ns
W_C38 ==
    /\ sampler = "softnet"
    /\ last.probe = "net_rx_action_exit" /\ last.cpu = 1
    /\ last.polled /\ last.more /\ last.ret = 0
    /\ last.start = 1 /\ last.ts = SQUEEZE_NS + 2
    /\ ArrGet(softnet.counters, SOFTNET_COUNTER_GROUP_WIDTH + TIME_SQUEEZED) = 1
    /\ ArrGet(softnet.counters, SOFTNET_COUNTER_GROUP_WIDTH + BUDGET_EXHAUSTED) = 0

(***************************************************************************)
(* The counter group specification: tlb_flush and the softirq probes on    *)
(* every CPU, with every reason and every vector of the kernel's enums:    *)
(* the five reasons the sampler names and the one that follows them, and   *)
(* the ten softirq vectors HI .. RCU.                                      *)
(***************************************************************************)
KernelTlbReasons == 0 .. 5

SoftirqVecs == 0 .. 9

InitGroups ==
    /\ sampler \in {"tlb_flush", "cpu_usage"}
    /\ InitMaps

NextGroups ==
    \/ \E c \in Cpus, r \in KernelTlbReasons, tg \in {NoGroup, 1} :
          nevents < MaxGroupEvents /\ tlb_flush(c, r, tg)
    \/ \E c \in Cpus, vec \in SoftirqVecs :
          nevents < MaxGroupEvents /\ softirq_enter(c, vec, 1)
    \/ \E c \in Cpus, vec \in SoftirqVecs :
          nevents < MaxGroupEvents /\ softirq_exit(c, vec, 2)

SpecGroups == InitGroups /\ [][NextGroups]_vars

(***************************************************************************)
(* C39: a probe that runs on CPU c modifies per-CPU grouped counters only  *)
(* in the group of c, the slots c*W .. c*W + W - 1: tlb_flush in events    *)
(* (W = 8), softirq entry and exit in softirq and softirq_time (W = 16)    *)
(* and in cpu_usage (W = 8), for every reason and every vec the kernel     *)
(* passes.                                                                 *)
(***************************************************************************)
ChangedSlots(a, b) == {i \in (DOMAIN a) \cup (DOMAIN b) : ArrGet(a, i) # ArrGet(b, i)}

GroupOf(cpu, W) == (cpu * W) .. (cpu * W + W - 1)

C39_Step ==
    (last'.probe \in {"tlb_flush", "softirq_enter", "softirq_exit"}
     /\ nevents' # nevents) =>
        LET c == last'.cpu
        IN  /\ ChangedSlots(tlb_events, tlb_events') \subseteq
                  GroupOf(c, TLB_COUNTER_GROUP_WIDTH)
            /\ ChangedSlots(cu_softirq, cu_softirq') \subseteq
                  GroupOf(c, SOFTIRQ_GROUP_WIDTH)
            /\ ChangedSlots(cu_softirq_time, cu_softirq_time') \subseteq
                  GroupOf(c, SOFTIRQ_GROUP_WIDTH)
            /\ ChangedSlots(cu_cpu_usage, cu_cpu_usage') \subseteq
                  GroupOf(c, CPU_USAGE_GROUP_WIDTH)
            /\ ChangedSlots(cu_softirq_start, cu_softirq_start') \subseteq {c}

C39_OwnGroupOnly == [][C39_Step]_vars

\* the last softirq vector, RCU, has been counted on CPU 1 in slot 16 + 9,
\* and no slot of CPU 0 has changed
W_C39 ==
    /\ sampler = "cpu_usage"
    /\ last.probe = "softirq_enter" /\ last.cpu = 1 /\ last.vec = 9
    /\ cu_softirq = (SOFTIRQ_GROUP_WIDTH + 9) :> 1

(***************************************************************************)
(* C40: for every non-zero 64-bit value v, clz(v) is the number of leading *)
(* zero bits of v: 63 minus the position of its highest one bit, on each   *)
(* of the 64 leaves of the search.                                         *)
(***************************************************************************)
C40_ClzCountsLeadingZeros ==
    (Indexed /\ indexer.v1 # {}) => indexer.lz = 63 - TopBit(indexer.v1)

\* the value with the bits 0 .. 37 set has 26 leading zeros
W_C40 ==
    /\ Indexed
    /\ indexer.v1 = 0 .. 37
    /\ indexer.lz = 26

====
